---- MODULE Spec2Model ----
(***************************************************************************)
(* Sparky Live: the daily score store, the rolling statistics, the nightly *)
(* analysis builder, the narrative selection and the archive client.      *)
(*                                                                         *)
(* Numbers.  dayPts are held in tenths of a point (12.5 pts is 125), so    *)
(* that Math.round and toFixed act on something.  A points-per-game value  *)
(* (toFixed(2)) is held in hundredths.  Arithmetic is exact: the binary    *)
(* rounding of IEEE doubles is not modelled.                               *)
(* An optional value (null in the source) is a sequence of length 0 or 1.  *)
(* Dates are day numbers, day 1 being 2025-10-07.                          *)
(***************************************************************************)
EXTENDS Integers, Sequences, FiniteSets, TLC

VARIABLES
    allDays,     \* the loaded history: loadAllDailyScores() of the store
    query,       \* the last call on the history: what it was given and returned
    cache,       \* _dbPromise and _histPromise: per dataset, the cached promise
    fetches,     \* every promise the archive client created, with its request
    callers,     \* the callers of fetchHistoricalData / fetchMatchupHistory
    store,       \* data/daily: the stored daily files, in file-name (date) order
    run,         \* the last analysis: what buildNightlyAnalysis was given and returned
    lookups,     \* the names toFranchise was given, each with what it returned
    tasks,       \* the per-team computations of one buildNightlyAnalysis call
    pipeline,    \* one run of index.js: its options, its step and what it posted
    dateScrape   \* the date loop of backfill.js: the scrapeDate call under way

statsVars == <<allDays, query>>
fetchVars == <<cache, fetches, callers>>
nightlyVars == <<store, run>>
restVars == <<lookups, tasks, pipeline, dateScrape>>
vars == <<allDays, query, cache, fetches, callers, store, run, lookups, tasks, pipeline, dateScrape>>

None == <<>>
Some(v) == <<v>>

Max(a, b) == IF a >= b THEN a ELSE b
Min(a, b) == IF a <= b THEN a ELSE b

\* Math.round(num / den) for den > 0: the nearest integer, a half going up.
RoundDiv(num, den) == (2 * num + den) \div (2 * den)

\* The only element of a set that has one: "only({e(x) : x \in {v}})" is
\* e(v), with v worked out once.
only(S) == CHOOSE r \in S : TRUE

\* A sequence given element by element, as the tuple of its elements: the
\* same sequence, each element worked out once.
Array(f) == SubSeq(f, 1, Len(f))

\* No daily file written and no analysis run.
NightlyIdle ==
    /\ store = <<>>
    /\ run = <<>>

\* backfill.js main: "let prevFingerprint = null" before the first date; null
\* is None.  No scrapeDate call is under way.
backfillStart ==
    [pc |-> "idle", prevFingerprint |-> None, fingerprint |-> "", stableCount |-> 0,
     i |-> 0, polls |-> 0, recent |-> <<>>, broke |-> FALSE, dates |-> 0]

\* No name resolved, no analysis under way, no run of the pipeline, no date
\* scraped.
RestIdle ==
    /\ lookups = <<>>
    /\ tasks = <<>>
    /\ pipeline = <<>>
    /\ dateScrape = backfillStart

(***************************************************************************)
(* config.js                                                               *)
(***************************************************************************)
PERIODS == <<
    [period |-> 1,  start |-> 1,   end |-> 13],
    [period |-> 2,  start |-> 14,  end |-> 27],
    [period |-> 3,  start |-> 28,  end |-> 41],
    [period |-> 4,  start |-> 42,  end |-> 55],
    [period |-> 5,  start |-> 56,  end |-> 69],
    [period |-> 6,  start |-> 70,  end |-> 83],
    [period |-> 7,  start |-> 84,  end |-> 97],
    [period |-> 8,  start |-> 98,  end |-> 111],
    [period |-> 9,  start |-> 112, end |-> 125],
    [period |-> 10, start |-> 140, end |-> 153],
    [period |-> 11, start |-> 154, end |-> 167],
    [period |-> 12, start |-> 168, end |-> 181],
    [period |-> 13, start |-> 182, end |-> 192] >>

\* PERIODS.find(p => p.period === period)
periodConfig(period) ==
    IF \E i \in 1..Len(PERIODS) : PERIODS[i].period = period
    THEN Some(PERIODS[CHOOSE i \in 1..Len(PERIODS) : PERIODS[i].period = period])
    ELSE None

getPeriodForDate(date) ==
    IF \E i \in 1..Len(PERIODS) : date >= PERIODS[i].start /\ date <= PERIODS[i].end
    THEN Some(PERIODS[CHOOSE i \in 1..Len(PERIODS) :
                  /\ date >= PERIODS[i].start /\ date <= PERIODS[i].end
                  /\ \A j \in 1..(i - 1) :
                        ~(date >= PERIODS[j].start /\ date <= PERIODS[j].end)].period)
    ELSE None

(***************************************************************************)
(* config.js: team names                                                   *)
(* A string the model uses is a TLA+ string; Spelling gives its characters, *)
(* so that toLowerCase, trim and includes work on what the string says.    *)
(* A null name or result is the empty string, which "||" and "if (!name)"  *)
(* treat as they treat null.                                               *)
(***************************************************************************)
Spelling ==
    "" :> <<>>
    @@ "JGC" :> <<"J", "G", "C">>
    @@ "PWN" :> <<"P", "W", "N">>
    @@ "BEW" :> <<"B", "E", "W">>
    @@ "MPP" :> <<"M", "P", "P">>
    @@ "RMS" :> <<"R", "M", "S">>
    @@ "GDD" :> <<"G", "D", "D">>
    @@ "Jason's Gaucho Chudpumpers" :> <<"J", "a", "s", "o", "n", "'", "s", " ", "G", "a", "u", "c", "h", "o", " ", "C", "h", "u", "d", "p", "u", "m", "p", "e", "r", "s">>
    @@ "Cmack's PWN" :> <<"C", "m", "a", "c", "k", "'", "s", " ", "P", "W", "N">>
    @@ "Brian's Endless Winter" :> <<"B", "r", "i", "a", "n", "'", "s", " ", "E", "n", "d", "l", "e", "s", "s", " ", "W", "i", "n", "t", "e", "r">>
    @@ "Unknown Team 3" :> <<"U", "n", "k", "n", "o", "w", "n", " ", "T", "e", "a", "m", " ", "3">>
    @@ "Unknown Team 4" :> <<"U", "n", "k", "n", "o", "w", "n", " ", "T", "e", "a", "m", " ", "4">>
    @@ " " :> <<" ">>
    @@ "a" :> <<"a">>
    @@ " PWN " :> <<" ", "P", "W", "N", " ">>
    @@ "Endless Win" :> <<"E", "n", "d", "l", "e", "s", "s", " ", "W", "i", "n">>
    @@ "gaucho pwn" :> <<"g", "a", "u", "c", "h", "o", " ", "p", "w", "n">>
    @@ "Winter Soldiers" :> <<"W", "i", "n", "t", "e", "r", " ", "S", "o", "l", "d", "i", "e", "r", "s">>
    @@ "jason's gaucho chudpumpers" :> <<"j", "a", "s", "o", "n", "'", "s", " ", "g", "a", "u", "c", "h", "o", " ", "c", "h", "u", "d", "p", "u", "m", "p", "e", "r", "s">>
    @@ "gaucho chudpumpers" :> <<"g", "a", "u", "c", "h", "o", " ", "c", "h", "u", "d", "p", "u", "m", "p", "e", "r", "s">>
    @@ "cmack's pwn" :> <<"c", "m", "a", "c", "k", "'", "s", " ", "p", "w", "n">>
    @@ "pwn" :> <<"p", "w", "n">>
    @@ "brian's endless winter" :> <<"b", "r", "i", "a", "n", "'", "s", " ", "e", "n", "d", "l", "e", "s", "s", " ", "w", "i", "n", "t", "e", "r">>
    @@ "endless winter" :> <<"e", "n", "d", "l", "e", "s", "s", " ", "w", "i", "n", "t", "e", "r">>
    @@ "brian's.endless.win ter.s13e01.720p.mp4" :> <<"b", "r", "i", "a", "n", "'", "s", ".", "e", "n", "d", "l", "e", "s", "s", ".", "w", "i", "n", " ", "t", "e", "r", ".", "s", "1", "3", "e", "0", "1", ".", "7", "2", "0", "p", ".", "m", "p", "4">>
    @@ "matt's mid tier perpetual projects" :> <<"m", "a", "t", "t", "'", "s", " ", "m", "i", "d", " ", "t", "i", "e", "r", " ", "p", "e", "r", "p", "e", "t", "u", "a", "l", " ", "p", "r", "o", "j", "e", "c", "t", "s">>
    @@ "mid tier perpetual projects" :> <<"m", "i", "d", " ", "t", "i", "e", "r", " ", "p", "e", "r", "p", "e", "t", "u", "a", "l", " ", "p", "r", "o", "j", "e", "c", "t", "s">>
    @@ "richie's meatspinners" :> <<"r", "i", "c", "h", "i", "e", "'", "s", " ", "m", "e", "a", "t", "s", "p", "i", "n", "n", "e", "r", "s">>
    @@ "meatspinners" :> <<"m", "e", "a", "t", "s", "p", "i", "n", "n", "e", "r", "s">>
    @@ "graeme's downtown demons" :> <<"g", "r", "a", "e", "m", "e", "'", "s", " ", "d", "o", "w", "n", "t", "o", "w", "n", " ", "d", "e", "m", "o", "n", "s">>
    @@ "downtown demons" :> <<"d", "o", "w", "n", "t", "o", "w", "n", " ", "d", "e", "m", "o", "n", "s">>
    @@ "gaucho" :> <<"g", "a", "u", "c", "h", "o">>
    @@ "chudpumper" :> <<"c", "h", "u", "d", "p", "u", "m", "p", "e", "r">>
    @@ "endless" :> <<"e", "n", "d", "l", "e", "s", "s">>
    @@ "winter" :> <<"w", "i", "n", "t", "e", "r">>
    @@ "perpetual" :> <<"p", "e", "r", "p", "e", "t", "u", "a", "l">>
    @@ "mid tier" :> <<"m", "i", "d", " ", "t", "i", "e", "r">>
    @@ "meatspinner" :> <<"m", "e", "a", "t", "s", "p", "i", "n", "n", "e", "r">>
    @@ "downtown" :> <<"d", "o", "w", "n", "t", "o", "w", "n">>
    @@ "demon" :> <<"d", "e", "m", "o", "n">>

UpperCase == <<"A", "B", "C", "D", "E", "F", "G", "H", "I", "J", "K", "L", "M",
               "N", "O", "P", "Q", "R", "S", "T", "U", "V", "W", "X", "Y", "Z">>
LowerCase == <<"a", "b", "c", "d", "e", "f", "g", "h", "i", "j", "k", "l", "m",
               "n", "o", "p", "q", "r", "s", "t", "u", "v", "w", "x", "y", "z">>

\* String.prototype.toLowerCase, on the characters.
toLowerCase(chars) ==
    Array([i \in 1..Len(chars) |->
        IF \E k \in 1..Len(UpperCase) : UpperCase[k] = chars[i]
        THEN LowerCase[CHOOSE k \in 1..Len(UpperCase) : UpperCase[k] = chars[i]]
        ELSE chars[i]])

\* String.prototype.trim: the blanks at both ends go.
RECURSIVE trim(_)
trim(chars) ==
    IF chars = <<>> THEN chars
    ELSE IF Head(chars) = " " THEN trim(Tail(chars))
    ELSE IF chars[Len(chars)] = " " THEN trim(SubSeq(chars, 1, Len(chars) - 1))
    ELSE chars

\* a.includes(b): b occurs in a as a run of consecutive characters.
includes(a, b) ==
    \E k \in 0..(Len(a) - Len(b)) : SubSeq(a, k + 1, k + Len(b)) = b

\* FRANCHISE_MAP, in the order of its keys.
FRANCHISE_MAP == <<
    <<"jason's gaucho chudpumpers", "JGC">>,
    <<"gaucho chudpumpers", "JGC">>,
    <<"cmack's pwn", "PWN">>,
    <<"pwn", "PWN">>,
    <<"brian's endless winter", "BEW">>,
    <<"endless winter", "BEW">>,
    <<"brian's.endless.win ter.s13e01.720p.mp4", "BEW">>,
    <<"matt's mid tier perpetual projects", "MPP">>,
    <<"mid tier perpetual projects", "MPP">>,
    <<"richie's meatspinners", "RMS">>,
    <<"meatspinners", "RMS">>,
    <<"graeme's downtown demons", "GDD">>,
    <<"downtown demons", "GDD">> >>

\* The keyword table of toFranchise, in the order of its keys.
keywords == <<
    <<"gaucho", "JGC">>, <<"chudpumper", "JGC">>, <<"pwn", "PWN">>,
    <<"endless", "BEW">>, <<"winter", "BEW">>, <<"perpetual", "MPP">>,
    <<"mid tier", "MPP">>, <<"meatspinner", "RMS">>, <<"downtown", "GDD">>,
    <<"demon", "GDD">> >>

\* The value of the first entry of a table whose key satisfies Test, or "".
firstMatch(table, Test(_)) ==
    IF \E i \in 1..Len(table) : Test(Spelling[table[i][1]])
    THEN table[CHOOSE i \in 1..Len(table) :
                  /\ Test(Spelling[table[i][1]])
                  /\ \A j \in 1..(i - 1) : ~Test(Spelling[table[j][1]])][2]
    ELSE ""

\* a || b on names.
orElse(a, b) == IF a # "" THEN a ELSE b

\* The three passes of toFranchise over a normalized name: the exact match,
\* the partial match in either direction, the keyword fallback.
toFranchiseNormalized(normalized) ==
    orElse(firstMatch(FRANCHISE_MAP, LAMBDA key : key = normalized),
           orElse(firstMatch(FRANCHISE_MAP,
                             LAMBDA key : includes(normalized, key) \/ includes(key, normalized)),
                  firstMatch(keywords, LAMBDA kw : includes(normalized, kw))))

\* toFranchise on the characters of a name.
toFranchiseChars(chars) ==
    only({ toFranchiseNormalized(normalized) : normalized \in {trim(toLowerCase(chars))} })

\* toFranchise of every name the model uses, computed once.
toFranchiseTable ==
    [name \in DOMAIN Spelling |->
        IF name = "" THEN "" ELSE toFranchiseChars(Spelling[name])] @@ <<>>

toFranchise(name) == toFranchiseTable[name]

\* FRANCHISE_NAMES[f] || f
franchiseName(f) ==
    CASE f = "JGC" -> "Gaucho Chudpumpers"
      [] f = "PWN" -> "PWN"
      [] f = "BEW" -> "Endless Winter"
      [] f = "MPP" -> "mid tier perpetual projects"
      [] f = "RMS" -> "Meatspinners"
      [] f = "GDD" -> "Downtown Demons"
      [] OTHER -> f

(***************************************************************************)
(* Rolling statistics                                                      *)
(***************************************************************************)
\* teams.find(t => t.franchise === franchise): the first such team, or None.
findTeam(teams, franchise) ==
    IF \E i \in 1..Len(teams) : teams[i].franchise = franchise
    THEN Some(teams[CHOOSE i \in 1..Len(teams) :
                  /\ teams[i].franchise = franchise
                  /\ \A j \in 1..(i - 1) : teams[j].franchise # franchise])
    ELSE None

hasTeam(day, franchise) == \E i \in 1..Len(day.teams) : day.teams[i].franchise = franchise

\* Array.prototype.slice(-n): the last n elements; slice(-0) is slice(0), the
\* whole array.
sliceLast(s, n) ==
    IF n = 0 \/ n >= Len(s) THEN s ELSE SubSeq(s, Len(s) - n + 1, Len(s))

\* The loops "for (const day of ...) { team = find; if (!team) continue;
\* total += team.<field> || 0 }".
RECURSIVE sumField(_, _, _)
sumField(days, franchise, field) ==
    IF days = <<>> THEN 0
    ELSE LET t == findTeam(Head(days).teams, franchise)
         IN  (IF t = None THEN 0 ELSE t[1][field])
             + sumField(Tail(days), franchise, field)

getDaysForPeriod(days, period) == SelectSeq(days, LAMBDA d : d.period = period)

\* +(pts / den).toFixed(2), pts in tenths of a point: hundredths.
toFixed2(pts, den) == RoundDiv(10 * pts, den)

rollingAvgPPG_FromFront(days, franchise, n) ==
    LET teamDays == SubSeq(SelectSeq(days, LAMBDA d : hasTeam(d, franchise)), 1,
                           Min(n, Len(SelectSeq(days, LAMBDA d : hasTeam(d, franchise)))))
        totalPts == sumField(teamDays, franchise, "dayPts")
        totalGP  == sumField(teamDays, franchise, "gp")
    IN  IF Len(teamDays) = 0 THEN None
        ELSE IF totalGP > 0 THEN Some(toFixed2(totalPts, totalGP))
        ELSE Some(toFixed2(totalPts, Len(teamDays)))

rollingAvgPPG(days, franchise, n) ==
    LET teamDays == sliceLast(SelectSeq(days, LAMBDA d : hasTeam(d, franchise)), n)
        totalPts == sumField(teamDays, franchise, "dayPts")
        totalGP  == sumField(teamDays, franchise, "gp")
    IN  IF Len(teamDays) = 0 THEN None
        ELSE IF totalGP > 0 THEN Some(toFixed2(totalPts, totalGP))
        ELSE Some(toFixed2(totalPts, Len(teamDays)))

seasonPPG(days, franchise) ==
    LET totalPts == sumField(days, franchise, "dayPts")
        totalGP  == sumField(days, franchise, "gp")
        dayCount == Len(SelectSeq(days, LAMBDA d : hasTeam(d, franchise)))
    IN  IF totalGP > 0 THEN Some(toFixed2(totalPts, totalGP))
        ELSE IF dayCount > 0 THEN Some(toFixed2(totalPts, dayCount))
        ELSE Some(0)

projectPeriodFinish_PerFranchise(days, franchise, period) ==
    LET periodDays == SelectSeq(getDaysForPeriod(days, period),
                                LAMBDA d : hasTeam(d, franchise))
        cfg        == periodConfig(period)
        periodPts  == sumField(periodDays, franchise, "dayPts")
        daysPlayed == Len(periodDays)
        totalDays  == (cfg[1].end - cfg[1].start) + 1
    IN  IF Len(periodDays) = 0 THEN None
        ELSE IF cfg = None THEN None
        ELSE Some([periodPts     |-> periodPts,
                   projected     |-> RoundDiv(periodPts * totalDays, 10 * daysPlayed),
                   daysPlayed    |-> daysPlayed,
                   daysRemaining |-> totalDays - daysPlayed,
                   totalDays     |-> totalDays])

\* periodPts is returned as +periodPts.toFixed(1): the tenths it is held in.
\* projected = Math.round(periodPts + (periodPts / daysPlayed) * daysRemaining)
\*           = Math.round(periodPts * totalDays / daysPlayed), in whole points.
projectPeriodFinish(days, franchise, period) ==
    LET periodDays == getDaysForPeriod(days, period)
        cfg        == periodConfig(period)
        periodPts  == sumField(periodDays, franchise, "dayPts")
        daysPlayed == Len(periodDays)
        totalDays  == (cfg[1].end - cfg[1].start) + 1
    IN  IF Len(periodDays) = 0 THEN None
        ELSE IF cfg = None THEN None
        ELSE Some([periodPts     |-> periodPts,
                   projected     |-> RoundDiv(periodPts * (daysPlayed + (totalDays - daysPlayed)),
                                              10 * daysPlayed),
                   daysPlayed    |-> daysPlayed,
                   daysRemaining |-> totalDays - daysPlayed,
                   totalDays     |-> totalDays])

(***************************************************************************)
(* analyze.js: the daily store                                             *)
(***************************************************************************)
descOrder_LastOfEqualsFirst(keys) ==
    LET pos(i) == 1 + Cardinality({j \in 1..Len(keys) : keys[j] > keys[i]})
                    + Cardinality({j \in (i + 1)..Len(keys) : keys[j] = keys[i]})
    IN  Array([p \in 1..Len(keys) |-> CHOOSE i \in 1..Len(keys) : pos(i) = p])

\* [...xs].sort((a, b) => Key(b) - Key(a)): descending by Key, and stable, so
\* equal keys keep the order they came in.  descOrder gives, for each place of
\* the sorted list, the index the element had.
descOrder(keys) ==
    LET pos(i) == 1 + Cardinality({j \in 1..Len(keys) : keys[j] > keys[i]})
                    + Cardinality({j \in 1..(i - 1) : keys[j] = keys[i]})
    IN  Array([p \in 1..Len(keys) |-> CHOOSE i \in 1..Len(keys) : pos(i) = p])

sortDescBy(xs, Key(_)) ==
    LET order == descOrder(Array([i \in 1..Len(xs) |-> Key(xs[i])]))
    IN  Array([p \in 1..Len(xs) |-> xs[order[p]]])

\* The same for an ascending comparator (a, b) => Key(a) - Key(b).
sortAscBy(xs, Key(_)) ==
    LET pos(i) == 1 + Cardinality({j \in 1..Len(xs) : Key(xs[j]) < Key(xs[i])})
                    + Cardinality({j \in 1..(i - 1) : Key(xs[j]) = Key(xs[i])})
    IN  Array([p \in 1..Len(xs) |-> xs[CHOOSE i \in 1..Len(xs) : pos(i) = p]])

\* findIndex(Test) + 1: the place of the first element passing Test, 0 if none.
findPlace(xs, Test(_)) ==
    IF \E i \in 1..Len(xs) : Test(xs[i])
    THEN CHOOSE i \in 1..Len(xs) : Test(xs[i]) /\ \A j \in 1..(i - 1) : ~Test(xs[j])
    ELSE 0

RECURSIVE sumSeq(_)
sumSeq(ns) == IF ns = <<>> THEN 0 ELSE Head(ns) + sumSeq(Tail(ns))

\* data.teams.reduce((sum, t) => sum + (t.dayPts || 0), 0)
totalPts(teams) == sumSeq(Array([i \in 1..Len(teams) |-> teams[i].dayPts]))

\* saveDailyScore's record for a scrape: the stored format.
dailyRecord(scrape, date) ==
    [date   |-> date,
     period |-> scrape.period,
     teams  |-> Array([i \in 1..Len(scrape.teams) |->
                    [franchise |-> orElse(toFranchise(scrape.teams[i].name),
                                          scrape.teams[i].name),
                     name      |-> scrape.teams[i].name,
                     dayPts    |-> scrape.teams[i].dayPts,
                     projPts   |-> scrape.teams[i].projectedFpg,
                     gp        |-> scrape.teams[i].gp]])]

\* writeFileSync(<date>.json): the file of that date is replaced, a new one
\* takes its place in file-name order.
writeFile(files, rec) ==
    SelectSeq(files, LAMBDA f : f.date < rec.date) \o <<rec>>
        \o SelectSeq(files, LAMBDA f : f.date > rec.date)

\* The normalisation loadAllDailyScores applies to a team of a loaded file.
normalizeTeam(t) ==
    LET resolved == orElse(toFranchise(t.franchise), toFranchise(t.name))
    IN  IF resolved # "" THEN [t EXCEPT !.franchise = resolved] ELSE t

\* JSON.parse of a file's text: a file that holds a record parses, one that
\* holds some other text throws.
parses(file) == "text" \notin DOMAIN file

loadAllDailyScores_StopsAtCorrupt(files) ==
    LET good == {i \in 1..Len(files) : \A j \in 1..i : parses(files[j])}
        kept == SelectSeq(SubSeq(files, 1, Cardinality(good)), LAMBDA data :
                    /\ data.period # 0
                    /\ Len(data.teams) # 0
                    /\ totalPts(data.teams) # 0)
    IN  Array([i \in 1..Len(kept) |->
            [kept[i] EXCEPT !.teams = Array([k \in 1..Len(kept[i].teams) |->
                                          normalizeTeam(kept[i].teams[k])])]])

\* loadAllDailyScores: the files in name order, without those that do not
\* parse or have no period, no team or no point, each team's franchise
\* normalised.  A period that is null is 0 here.
loadAllDailyScores(files) ==
    LET kept == SelectSeq(files, LAMBDA data :
                    /\ parses(data)
                    /\ data.period # 0
                    /\ Len(data.teams) # 0
                    /\ totalPts(data.teams) # 0)
    IN  Array([i \in 1..Len(kept) |->
            [kept[i] EXCEPT !.teams = Array([k \in 1..Len(kept[i].teams) |->
                                          normalizeTeam(kept[i].teams[k])])]])

(***************************************************************************)
(* analyze.js: standings                                                   *)
(***************************************************************************)
\* Every team entry of the days, day after day.
RECURSIVE allTeams(_)
allTeams(days) ==
    IF days = <<>> THEN <<>> ELSE Head(days).teams \o allTeams(Tail(days))

\* The keys of a totals object in the order they were first assigned: each
\* franchise once, in the order of its first entry.
firstSeen(ts) ==
    LET firsts == {i \in 1..Len(ts) : \A j \in 1..(i - 1) : ts[j].franchise # ts[i].franchise}
        nth(p) == CHOOSE i \in firsts : Cardinality({j \in firsts : j < i}) = p - 1
    IN  Array([p \in 1..Cardinality(firsts) |-> ts[nth(p)].franchise])

\* Object.entries(totals) of "for day, for t: totals[t.franchise] += t.dayPts".
totalsEntries(days) ==
    LET ts   == allTeams(days)
        keys == firstSeen(ts)
    IN  Array([p \in 1..Len(keys) |->
            [franchise |-> keys[p],
             total     |-> sumSeq(Array([i \in 1..Len(ts) |->
                                      IF ts[i].franchise = keys[p] THEN ts[i].dayPts ELSE 0]))]])

\* Object.entries(totals).sort((a, b) => b[1] - a[1])
totalsSorted(days) == sortDescBy(totalsEntries(days), LAMBDA e : e.total)

\* The rank of a franchise in the cumulative standings of the days; 0 is null.
computePeriodRankAtDay(days, franchise) ==
    findPlace(totalsSorted(days), LAMBDA e : e.franchise = franchise)

computePeriodStandings(periodDays, franchise) ==
    LET currentRank  == computePeriodRankAtDay(periodDays, franchise)
        previousRank == computePeriodRankAtDay(SubSeq(periodDays, 1, Len(periodDays) - 1),
                                               franchise)
    IN  IF Len(periodDays) < 2 THEN None
        ELSE IF currentRank = 0 \/ previousRank = 0 THEN None
        ELSE Some([currentRank |-> currentRank, previousRank |-> previousRank])

\* The ascending sequence of a finite set of integers: the order in which
\* Object.entries lists integer keys.
RECURSIVE ascending(_)
ascending(S) ==
    IF S = {} THEN <<>>
    ELSE LET m == CHOOSE x \in S : \A y \in S : x <= y
         IN  <<m>> \o ascending(S \ {m})

\* computeAllPeriodTotals: the franchise's total in each period that has 7 or
\* more loaded days.
computeAllPeriodTotals(days, franchise) ==
    LET periods == ascending({days[i].period : i \in {k \in 1..Len(days) :
                       /\ days[k].period # 0
                       /\ Len(getDaysForPeriod(days, days[k].period)) >= 7}})
    IN  Array([p \in 1..Len(periods) |->
            [period |-> periods[p],
             total  |-> sumField(getDaysForPeriod(days, periods[p]), franchise, "dayPts")]])

(***************************************************************************)
(* historical.js: the archive client's two memoised fetches                *)
(***************************************************************************)
MaxCallers == 2
MaxFetches == 3

Datasets == {"db", "hist"}
Callers == 1..MaxCallers

\* No archive call has been made.
FetchIdle ==
    /\ cache = [d \in Datasets |-> None]
    /\ fetches = <<>>
    /\ callers = [c \in Callers |-> [pc |-> "idle", promise |-> 0, result |-> "none"]]

\* A bug the promise cache is there to prevent: the cache is read only once
\* the promise it holds has been fulfilled, so a call made while the request
\* is in flight issues its own.
fetchCall_CacheWhenDone(c, d) ==
    /\ callers[c].pc = "idle"
    /\ IF cache[d] # None /\ fetches[cache[d][1]].promise # "pending"
       THEN /\ callers' = [callers EXCEPT
                             ![c] = [pc |-> "awaiting", promise |-> cache[d][1], result |-> "none"]]
            /\ UNCHANGED <<cache, fetches>>
       ELSE /\ Len(fetches) < MaxFetches
            /\ fetches' = Append(fetches, [dataset |-> d, net |-> "inflight", promise |-> "pending"])
            /\ cache' = [cache EXCEPT ![d] = Some(Len(fetches) + 1)]
            /\ callers' = [callers EXCEPT
                             ![c] = [pc |-> "awaiting", promise |-> Len(fetches) + 1, result |-> "none"]]

\* fetchHistoricalData() / fetchMatchupHistory() up to its return: the cached
\* promise if there is one, else a new promise whose body runs to its first
\* await (fetch is issued) before the cache is assigned and the call returns.
fetchCall(c, d) ==
    /\ callers[c].pc = "idle"
    /\ IF cache[d] # None
       THEN /\ callers' = [callers EXCEPT
                             ![c] = [pc |-> "awaiting", promise |-> cache[d][1], result |-> "none"]]
            /\ UNCHANGED <<cache, fetches>>
       ELSE /\ Len(fetches) < MaxFetches
            /\ fetches' = Append(fetches, [dataset |-> d, net |-> "inflight", promise |-> "pending"])
            /\ cache' = [cache EXCEPT ![d] = Some(Len(fetches) + 1)]
            /\ callers' = [callers EXCEPT
                             ![c] = [pc |-> "awaiting", promise |-> Len(fetches) + 1, result |-> "none"]]

\* The network answers a request: an OK response, a response that is not OK,
\* or no response (fetch rejects).
fetchSettle(id, outcome) ==
    /\ fetches[id].net = "inflight"
    /\ fetches' = [fetches EXCEPT ![id].net = outcome]
    /\ UNCHANGED <<cache, callers>>

\* The body with a rejected fetch treated as a response that is not OK is:
\* the cache is cleared, the promise is rejected all the same.
fetchContinue_ClearsOnReject(id) ==
    /\ fetches[id].net \in {"ok", "notOk", "failed"}
    /\ fetches[id].promise = "pending"
    /\ CASE fetches[id].net = "ok" ->
              /\ fetches' = [fetches EXCEPT ![id].net = "reading"]
              /\ UNCHANGED cache
         [] fetches[id].net = "notOk" ->
              /\ cache' = [cache EXCEPT ![fetches[id].dataset] = None]
              /\ fetches' = [fetches EXCEPT ![id].promise = "empty"]
         [] fetches[id].net = "failed" ->
              /\ cache' = [cache EXCEPT ![fetches[id].dataset] = None]
              /\ fetches' = [fetches EXCEPT ![id].promise = "rejected"]
    /\ UNCHANGED callers

\* The promise's body resumes after "await fetch(...)".
fetchContinue(id) ==
    /\ fetches[id].net \in {"ok", "notOk", "failed"}
    /\ fetches[id].promise = "pending"
    /\ CASE fetches[id].net = "ok" ->
              /\ fetches' = [fetches EXCEPT ![id].net = "reading"]
              /\ UNCHANGED cache
         [] fetches[id].net = "notOk" ->
              /\ cache' = [cache EXCEPT ![fetches[id].dataset] = None]
              /\ fetches' = [fetches EXCEPT ![id].promise = "empty"]
         [] fetches[id].net = "failed" ->
              /\ fetches' = [fetches EXCEPT ![id].promise = "rejected"]
              /\ UNCHANGED cache
    /\ UNCHANGED callers

\* "await resp.text()" settles and the rows are parsed: the promise is
\* fulfilled with the records, or rejected when the body cannot be read.
fetchText(id, ok) ==
    /\ fetches[id].net = "reading"
    /\ fetches' = [fetches EXCEPT ![id].net = "done",
                                  ![id].promise = IF ok THEN "records" ELSE "rejected"]
    /\ UNCHANGED <<cache, callers>>

\* A caller's await of the promise it was handed completes.
callerResume(c) ==
    /\ callers[c].pc = "awaiting"
    /\ fetches[callers[c].promise].promise # "pending"
    /\ callers' = [callers EXCEPT ![c].pc = "got",
                                  ![c].result = fetches[callers[c].promise].promise]
    /\ UNCHANGED <<cache, fetches>>

callerReturn(c) ==
    /\ callers[c].pc = "got"
    /\ callers' = [callers EXCEPT ![c] = [pc |-> "idle", promise |-> 0, result |-> "none"]]
    /\ UNCHANGED <<cache, fetches>>

FetchInit ==
    /\ FetchIdle
    /\ NightlyIdle
    /\ allDays = <<>>
    /\ query = None
    /\ RestIdle

FetchNext ==
    \/ \E c \in Callers, d \in Datasets : fetchCall(c, d) /\ UNCHANGED <<statsVars, nightlyVars, restVars>>
    \/ \E id \in 1..Len(fetches), outcome \in {"ok", "notOk", "failed"} :
          fetchSettle(id, outcome) /\ UNCHANGED <<statsVars, nightlyVars, restVars>>
    \/ \E id \in 1..Len(fetches) : fetchContinue(id) /\ UNCHANGED <<statsVars, nightlyVars, restVars>>
    \/ \E id \in 1..Len(fetches), ok \in BOOLEAN : fetchText(id, ok) /\ UNCHANGED <<statsVars, nightlyVars, restVars>>
    \/ \E c \in Callers : callerResume(c) /\ UNCHANGED <<statsVars, nightlyVars, restVars>>
    \/ \E c \in Callers : callerReturn(c) /\ UNCHANGED <<statsVars, nightlyVars, restVars>>

SpecFetch == FetchInit /\ [][FetchNext]_vars

(***************************************************************************)
(* historical.js: the archive queries                                      *)
(* A Database record is [season, period, teams], teams being the           *)
(* [franchise, fpts] entries in the order of OWNER_TO_FRANCHISE, fpts in    *)
(* tenths.  A matchup is [season, period, winner, loser].  Each query is    *)
(* given what its fetch resolved to.                                       *)
(***************************************************************************)
FRANCHISE_TO_OWNER(f) ==
    CASE f = "JGC" -> "Jason"
      [] f = "BEW" -> "Brian"
      [] f = "GDD" -> "Graeme"
      [] f = "PWN" -> "Chris"
      [] f = "RMS" -> "Richie"
      [] f = "MPP" -> "Matt"
      [] OTHER -> f

\* rec.teams[franchise].fpts when the record has the franchise.
hasEntry(rec, franchise) == \E i \in 1..Len(rec.teams) : rec.teams[i].franchise = franchise
fptsOf(rec, franchise) ==
    rec.teams[CHOOSE i \in 1..Len(rec.teams) : rec.teams[i].franchise = franchise].fpts

RECURSIVE getPeriodHistory(_, _)
getPeriodHistory(records, periodNumber) ==
    IF records = <<>> THEN <<>>
    ELSE (IF Head(records).period # periodNumber THEN <<>>
          ELSE Array([i \in 1..Len(Head(records).teams) |->
                   [season    |-> Head(records).season,
                    franchise |-> Head(records).teams[i].franchise,
                    fpts      |-> Head(records).teams[i].fpts]]))
         \o getPeriodHistory(Tail(records), periodNumber)

\* history.reduce((best, entry) => entry.fpts > best.fpts ? entry : best):
\* the first entry that no entry exceeds.
reduceBest(history) ==
    history[CHOOSE i \in 1..Len(history) :
               /\ \A j \in 1..Len(history) : history[j].fpts <= history[i].fpts
               /\ \A j \in 1..(i - 1) : history[j].fpts < history[i].fpts]

\* history.reduce((worst, entry) => entry.fpts < worst.fpts ? entry : worst)
reduceWorst(history) ==
    history[CHOOSE i \in 1..Len(history) :
               /\ \A j \in 1..Len(history) : history[j].fpts >= history[i].fpts
               /\ \A j \in 1..(i - 1) : history[j].fpts > history[i].fpts]

getLeaguePeriodRecord(records, periodNumber) ==
    LET history == getPeriodHistory(records, periodNumber)
    IN  IF Len(history) = 0 THEN None ELSE Some(reduceBest(history))

getFranchisePeriodBest(records, periodNumber, franchise) ==
    LET mine == SelectSeq(getPeriodHistory(records, periodNumber),
                          LAMBDA h : h.franchise = franchise)
    IN  IF Len(mine) = 0 THEN None ELSE Some(reduceBest(mine))

getCareerTotalPoints(records, franchise) ==
    LET counted == SelectSeq(records, LAMBDA rec :
                       hasEntry(rec, franchise) /\ fptsOf(rec, franchise) # 0)
    IN  [totalPts     |-> RoundDiv(sumSeq(Array([i \in 1..Len(counted) |->
                                              fptsOf(counted[i], franchise)])), 10),
         totalPeriods |-> Len(counted)]

getPeriodDominance(matchups, periodNumber, franchise) ==
    LET periodMatchups == SelectSeq(matchups, LAMBDA m : m.period = periodNumber)
        wins(f) == Len(SelectSeq(periodMatchups, LAMBDA m : m.winner = f))
        \* the winners in the order winCounts got its keys
        winners == firstSeen(Array([i \in 1..Len(periodMatchups) |->
                                 [franchise |-> periodMatchups[i].winner]]))
        top == findPlace(winners, LAMBDA f :
                   \A k \in 1..Len(winners) : wins(winners[k]) <= wins(f))
    IN  [wins             |-> wins(franchise),
         totalOccurrences |-> Len(periodMatchups),
         topWinner        |-> IF top = 0 THEN "" ELSE winners[top],
         topWinnerWins    |-> IF top = 0 THEN 0 ELSE wins(winners[top])]

getH2HPeriodRecord(matchups, periodNumber, franchiseA, franchiseB) ==
    LET relevant == SelectSeq(matchups, LAMBDA m :
                        /\ m.period = periodNumber
                        /\ \/ m.winner = franchiseA /\ m.loser = franchiseB
                           \/ m.winner = franchiseB /\ m.loser = franchiseA)
        winsA == Len(SelectSeq(relevant, LAMBDA m : m.winner = franchiseA))
        winsB == Len(relevant) - winsA
    IN  IF Len(relevant) = 0 THEN None
        ELSE Some([winsA |-> winsA, winsB |-> winsB, total |-> Len(relevant),
                   neverBeatenByB |-> (winsB = 0 /\ winsA > 0),
                   neverBeatenByA |-> (winsA = 0 /\ winsB > 0)])

getFranchiseMatchupStreak(matchups, franchise) ==
    LET mine == sortDescBy(SelectSeq(matchups, LAMBDA m :
                               m.winner = franchise \/ m.loser = franchise),
                           LAMBDA m : 100 * m.season + m.period)
        result(m) == IF m.winner = franchise THEN "W" ELSE "L"
        firstResult == result(mine[1])
        \* the matchups before the first one with another result
        streak == Cardinality({i \in 1..Len(mine) :
                      \A j \in 1..i : result(mine[j]) = firstResult})
        lastWinAt == findPlace(mine, LAMBDA m : m.winner = franchise)
    IN  IF Len(mine) = 0 THEN None
        ELSE Some([streak  |-> streak,
                   type    |-> firstResult,
                   lastWin |-> IF firstResult = "L" /\ lastWinAt # 0
                               THEN Some([season |-> mine[lastWinAt].season,
                                          period |-> mine[lastWinAt].period])
                               ELSE None])

getSeasonPace(records, franchise, currentPeriod) ==
    LET counted == SelectSeq(records, LAMBDA rec :
                       rec.period <= currentPeriod /\ hasEntry(rec, franchise))
        seasons == ascending({counted[i].season : i \in 1..Len(counted)})
        entries == Array([p \in 1..Len(seasons) |->
                      [season |-> seasons[p],
                       totalThroughPeriod |->
                           RoundDiv(sumSeq(Array([i \in 1..Len(counted) |->
                                       IF counted[i].season = seasons[p]
                                       THEN fptsOf(counted[i], franchise) ELSE 0])), 10)]])
        paces == sortDescBy(entries, LAMBDA e : e.totalThroughPeriod)
    IN  IF Len(paces) = 0 THEN None
        ELSE Some([historicalPaces |-> paces,
                   bestPace        |-> paces[1],
                   worstPace       |-> paces[Len(paces)]])

(***************************************************************************)
(* analyze.js: buildNarratives, the local detectors                        *)
(* A narrative text is held as its template and the values put into it:    *)
(* [kind, nums, names].  A candidate is [score, cat, text, isBad], cat      *)
(* being "" when the candidate has no category.                            *)
(***************************************************************************)
Txt(kind, nums, names) == [kind |-> kind, nums |-> nums, names |-> names]

Cand(score, cat, isBad, text) == [score |-> score, cat |-> cat, isBad |-> isBad, text |-> text]

Abs(n) == IF n < 0 THEN -n ELSE n

\* The greatest and the least total of a non-empty list of period totals.
maxTotal(ps) == CHOOSE m \in {ps[i].total : i \in 1..Len(ps)} :
                    \A i \in 1..Len(ps) : ps[i].total <= m
minTotal(ps) == CHOOSE m \in {ps[i].total : i \in 1..Len(ps)} :
                    \A i \in 1..Len(ps) : ps[i].total >= m

\* rankedDays: for each loaded day, the franchise's place among the day's
\* teams sorted by dayPts, 7 when it has no entry that day.
rankOnDay(day, franchise) ==
    LET sorted  == sortDescBy(day.teams, LAMBDA t : t.dayPts)
        teamIdx == findPlace(sorted, LAMBDA t : t.franchise = franchise)
    IN  IF teamIdx > 0 THEN teamIdx ELSE 7

\* "for (i = recent.length - 1; i >= 0; i--) if (Test) n++; else break":
\* how many elements at the end of the list pass Test.
trailing(xs, Test(_)) ==
    Cardinality({i \in 1..Len(xs) : \A j \in i..Len(xs) : Test(xs[j])})

\* What the detectors of one call share.
narrativeContext(days, franchise, period, todayDayPts, todayGP, projection, avg3d, ppg, todayScrapeTeams) ==
    LET periodDays == getDaysForPeriod(days, period)
        cfg        == periodConfig(period)
    IN  [allDays     |-> days,
         franchise   |-> franchise,
         period      |-> period,
         todayDayPts |-> todayDayPts,
         todayGP     |-> todayGP,
         projection  |-> projection,
         avg3d       |-> avg3d,
         ppg         |-> ppg,
         teams       |-> todayScrapeTeams,
         recent      |-> sliceLast(Array([i \in 1..Len(days) |-> rankOnDay(days[i], franchise)]), 30),
         periodDays  |-> periodDays,
         periodTotalDays |-> IF cfg # None THEN (cfg[1].end - cfg[1].start) + 1 ELSE 14]

winStreak(cx)    == trailing(cx.recent, LAMBDA r : r = 1)
podiumStreak(cx) == trailing(cx.recent, LAMBDA r : r <= 3)
bottomStreak(cx) == trailing(cx.recent, LAMBDA r : r > 3)

\* Math.round(periodProgress * k), periodProgress = periodDays.length / periodTotalDays
progressTimes(cx, k) == RoundDiv(k * Len(cx.periodDays), cx.periodTotalDays)

\* A reading in which the streak is counted over the whole history and fires
\* from three days on.
winStreakCandidate_FromThree(cx) ==
    IF winStreak(cx) >= 3
    THEN <<Cand(Min(95, 40 + winStreak(cx) * 15), "", FALSE,
                Txt("win streak", <<winStreak(cx)>>, <<>>))>>
    ELSE <<>>

\* 1. Win streak
winStreakCandidate(cx) ==
    IF winStreak(cx) >= 2
    THEN <<Cand(Min(95, 40 + winStreak(cx) * 15), "", FALSE,
                Txt("win streak", <<winStreak(cx)>>, <<>>))>>
    ELSE <<>>

\* A reading in which the podium streak does not look at the win streak.
podiumStreakCandidate_Unsuppressed(cx) ==
    IF podiumStreak(cx) >= 3
    THEN <<Cand(Min(90, 25 + podiumStreak(cx) * 10), "", FALSE,
                Txt("podium streak", <<podiumStreak(cx)>>, <<>>))>>
    ELSE <<>>

\* 2. Podium streak
podiumStreakCandidate(cx) ==
    IF podiumStreak(cx) >= 3 /\ winStreak(cx) < 2
    THEN <<Cand(Min(90, 25 + podiumStreak(cx) * 10), "", FALSE,
                Txt("podium streak", <<podiumStreak(cx)>>, <<>>))>>
    ELSE <<>>

\* 3. Bottom-half streak
bottomStreakCandidate(cx) ==
    IF bottomStreak(cx) >= 5
    THEN <<Cand(Min(85, 30 + bottomStreak(cx) * 7), "", TRUE,
                Txt("bottom-half streak", <<bottomStreak(cx)>>, <<>>))>>
    ELSE <<>>

\* The franchise's dayPts on a day, 0 when it has no entry.
ptsOnDay(day, franchise) ==
    LET t == findTeam(day.teams, franchise) IN IF t = None THEN 0 ELSE t[1].dayPts

\* 4. Best day this period
bestDayCandidate(cx) ==
    IF /\ 2 * Len(cx.periodDays) >= cx.periodTotalDays
       /\ Len(cx.periodDays) > 1
       /\ cx.todayDayPts > 0
       /\ \A i \in 1..Len(cx.periodDays) :
             cx.todayDayPts >= ptsOnDay(cx.periodDays[i], cx.franchise)
    THEN <<Cand(30 + progressTimes(cx, 35), "", FALSE, Txt("best day", <<>>, <<>>))>>
    ELSE <<>>

\* 5. Period rank change
rankChangeCandidate(cx) ==
    LET periodStandings == computePeriodStandings(cx.periodDays, cx.franchise)
        currentRank  == periodStandings[1].currentRank
        previousRank == periodStandings[1].previousRank
        change == Abs(currentRank - previousRank)
    IN  IF Len(cx.periodDays) < 2 \/ periodStandings = None THEN <<>>
        ELSE IF currentRank < previousRank
        THEN <<Cand(15 + change * 10 + progressTimes(cx, 20)
                       + (IF currentRank <= 2 THEN 15 ELSE 0), "", FALSE,
                    Txt("climbed", <<currentRank, cx.period>>, <<>>))>>
        ELSE IF currentRank > previousRank
        THEN <<Cand(15 + change * 10 + progressTimes(cx, 20)
                       + (IF currentRank >= 5 THEN 10 ELSE 0), "", TRUE,
                    Txt("dropped", <<currentRank, cx.period>>, <<>>))>>
        ELSE <<>>

\* 6. Today's PPG vs period PPG average.  pct is
\* Math.round((todayPPG - periodPPG) / periodPPG * 100), the two being
\* todayDayPts / todayGP and periodTotal / periodGP.
ppgVsPeriodCandidate(cx) ==
    LET periodTotal == sumField(cx.periodDays, cx.franchise, "dayPts")
        periodGP    == sumField(cx.periodDays, cx.franchise, "gp")
        pct   == RoundDiv(100 * (cx.todayDayPts * periodGP - periodTotal * cx.todayGP),
                          periodTotal * cx.todayGP)
        score == Min(75, 30 + RoundDiv(4 * Abs(pct), 10))
        nums  == <<toFixed2(cx.todayDayPts, cx.todayGP), toFixed2(periodTotal, periodGP)>>
    IN  IF ~(Len(cx.periodDays) >= 3 /\ cx.todayGP > 0) THEN <<>>
        ELSE IF ~(periodGP > 0 /\ periodTotal > 0) THEN <<>>
        ELSE IF pct >= 30 THEN <<Cand(score, "", FALSE, Txt("PPG above period avg", nums, <<>>))>>
        ELSE IF pct <= -30 THEN <<Cand(score, "", TRUE, Txt("PPG below period avg", nums, <<>>))>>
        ELSE <<>>

\* 7. Season rank
seasonRankCandidate(cx) ==
    LET seasonSorted == totalsSorted(cx.allDays)
        seasonRank   == findPlace(seasonSorted, LAMBDA e : e.franchise = cx.franchise)
        pts          == RoundDiv(seasonSorted[seasonRank].total, 10)
    IN  IF seasonRank = 1
        THEN <<Cand(35, "", FALSE, Txt("1st overall", <<pts>>, <<>>))>>
        ELSE IF seasonRank = Len(seasonSorted) /\ seasonRank # 0
        THEN <<Cand(30, "", TRUE, Txt("last overall", <<pts>>, <<>>))>>
        ELSE <<>>

\* 8. 3D trending
trendCandidate(cx) ==
    LET avg3d == cx.avg3d[1]
        ppg   == cx.ppg[1]
        pctChange == RoundDiv(100 * (avg3d - ppg), ppg)
        score == Min(70, 40 + RoundDiv(Abs(pctChange), 2))
    IN  IF cx.avg3d = None \/ cx.ppg = None THEN <<>>
        ELSE IF ~(ppg > 0) THEN <<>>
        ELSE IF pctChange >= 20
        THEN <<Cand(score, "", FALSE, Txt("surging", <<avg3d, pctChange>>, <<>>))>>
        ELSE IF pctChange >= 8
        THEN <<Cand(30, "", FALSE, Txt("3D up", <<avg3d, ppg>>, <<>>))>>
        ELSE IF pctChange <= -20
        THEN <<Cand(score, "", TRUE, Txt("slumping", <<avg3d, pctChange>>, <<>>))>>
        ELSE IF pctChange <= -8
        THEN <<Cand(30, "", TRUE, Txt("3D down", <<avg3d, ppg>>, <<>>))>>
        ELSE <<>>

\* 9. Consistency
consistencyCandidate(cx) ==
    LET last7    == sliceLast(cx.recent, 7)
        aboveAvg == Len(SelectSeq(last7, LAMBDA r : r <= 3))
    IN  IF Len(cx.recent) < 7 THEN <<>>
        ELSE IF aboveAvg >= 6
        THEN <<Cand(45, "", FALSE, Txt("top 3 often", <<aboveAvg>>, <<>>))>>
        ELSE IF aboveAvg <= 1
        THEN <<Cand(40, "", TRUE, Txt("top 3 rarely", <<aboveAvg>>, <<>>))>>
        ELSE <<>>

\* 10. Period pace: best or worst period of the season.  projected is in
\* whole points, the period totals in tenths.
periodPaceCandidate(cx) ==
    LET all == computeAllPeriodTotals(cx.allDays, cx.franchise)
        bestPeriod  == maxTotal(all)
        worstPeriod == minTotal(all)
        currentPace == cx.projection[1].projected
    IN  IF ~(Len(cx.periodDays) >= 3 /\ cx.projection # None) THEN <<>>
        ELSE IF Len(all) = 0 THEN <<>>
        ELSE IF 1000 * currentPace > 105 * bestPeriod
        THEN <<Cand(55, "proj", FALSE,
                    Txt("pace best period", <<currentPace, RoundDiv(bestPeriod, 10)>>, <<>>))>>
        ELSE IF 1000 * currentPace < 95 * worstPeriod /\ Len(all) >= 3
        THEN <<Cand(50, "proj", TRUE,
                    Txt("pace worst period", <<currentPace, RoundDiv(worstPeriod, 10)>>, <<>>))>>
        ELSE <<>>

\* 11. Comeback or collapse within the period
comebackCandidate(cx) ==
    LET midpoint == Len(cx.periodDays) \div 2
        midRank  == computePeriodRankAtDay(SubSeq(cx.periodDays, 1, midpoint), cx.franchise)
        currentRankInPeriod == computePeriodRankAtDay(cx.periodDays, cx.franchise)
        jump == midRank - currentRankInPeriod
    IN  IF Len(cx.periodDays) < 5 THEN <<>>
        ELSE IF midRank = 0 \/ currentRankInPeriod = 0 THEN <<>>
        ELSE IF jump >= 3
        THEN <<Cand(55, "", FALSE, Txt("comeback", <<midRank, currentRankInPeriod>>, <<>>))>>
        ELSE IF jump <= -3
        THEN <<Cand(50, "", TRUE, Txt("collapse", <<midRank, currentRankInPeriod>>, <<>>))>>
        ELSE <<>>

\* A reading in which the drought does not look at the bottom-half streak.
droughtCandidate_Unsuppressed(cx) ==
    LET drought == trailing(cx.recent, LAMBDA r : r > 3)
    IN  IF drought >= 8
        THEN <<Cand(Min(60, 30 + drought * 3), "", TRUE, Txt("drought", <<drought>>, <<>>))>>
        ELSE <<>>

\* 12. Drought: the count is the bottom-half streak's.
droughtCandidate(cx) ==
    LET drought == trailing(cx.recent, LAMBDA r : r > 3)
    IN  IF drought >= 8 /\ bottomStreak(cx) < 5
        THEN <<Cand(Min(60, 30 + drought * 3), "", TRUE, Txt("drought", <<drought>>, <<>>))>>
        ELSE <<>>

\* 13. Period record proximity (this season)
recordProximityCandidate(cx) ==
    LET all == computeAllPeriodTotals(cx.allDays, cx.franchise)
        allTimeBest == IF Len(all) > 0 THEN maxTotal(all) ELSE 0
        remaining   == allTimeBest - cx.projection[1].periodPts
    IN  IF ~(cx.projection # None /\ Len(cx.periodDays) >= 5) THEN <<>>
        ELSE IF ~(allTimeBest > 0 /\ cx.projection[1].periodPts > 0) THEN <<>>
        ELSE IF remaining > 0 /\ remaining <= 20 * cx.projection[1].daysRemaining
        THEN <<Cand(50, "proj", FALSE,
                    Txt("from personal best period", <<RoundDiv(remaining, 10)>>, <<>>))>>
        ELSE <<>>

\* The candidates of the thirteen local detectors, in the order they are pushed.
localCandidates(cx) ==
    winStreakCandidate(cx) \o podiumStreakCandidate(cx) \o bottomStreakCandidate(cx)
        \o bestDayCandidate(cx) \o rankChangeCandidate(cx) \o ppgVsPeriodCandidate(cx)
        \o seasonRankCandidate(cx) \o trendCandidate(cx) \o consistencyCandidate(cx)
        \o periodPaceCandidate(cx) \o comebackCandidate(cx) \o droughtCandidate(cx)
        \o recordProximityCandidate(cx)

(***************************************************************************)
(* analyze.js: buildNarratives, the historical tier                        *)
(***************************************************************************)
milestones == <<1000, 2000, 3000, 4000, 5000, 6000, 7000, 8000, 9000, 10000, 12500, 15000>>

\* The milestone loop without its distance test on the last band: the nearest
\* unmet milestone is reported however far away it is.
milestoneCandidate_AnyDistance(cx, records) ==
    LET career == getCareerTotalPoints(records, cx.franchise)
        currentPeriodPts == IF cx.projection # None THEN cx.projection[1].periodPts ELSE 0
        approxCurrentTotal == 10 * career.totalPts + currentPeriodPts
        remaining(m) == 10 * m - approxCurrentTotal
        at == findPlace(milestones, LAMBDA m : remaining(m) > -50)
        rem == remaining(milestones[at])
    IN  IF ~(career.totalPts > 0) \/ at = 0 THEN <<>>
        ELSE IF rem > 0 /\ rem <= 200
        THEN <<Cand(85, "", FALSE, Txt("from milestone", <<rem, milestones[at]>>, <<>>))>>
        ELSE IF rem > 0 /\ rem <= 500
        THEN <<Cand(70, "", FALSE, Txt("from milestone", <<rem, milestones[at]>>, <<>>))>>
        ELSE IF rem > 0
        THEN <<Cand(55, "", FALSE, Txt("from milestone", <<rem, milestones[at]>>, <<>>))>>
        ELSE <<Cand(90, "", FALSE, Txt("crossed milestone", <<milestones[at]>>, <<>>))>>

\* Career milestone proximity.  remaining is in tenths: the career total is
\* a whole number, the period's points have one decimal.
milestoneCandidate(cx, records) ==
    LET career == getCareerTotalPoints(records, cx.franchise)
        currentPeriodPts == IF cx.projection # None THEN cx.projection[1].periodPts ELSE 0
        approxCurrentTotal == 10 * career.totalPts + currentPeriodPts
        remaining(m) == 10 * m - approxCurrentTotal
        \* the first milestone at which the loop breaks
        at == findPlace(milestones, LAMBDA m : remaining(m) <= 1000 /\ remaining(m) > -50)
        rem == remaining(milestones[at])
    IN  IF ~(career.totalPts > 0) \/ at = 0 THEN <<>>
        ELSE IF rem > 0 /\ rem <= 200
        THEN <<Cand(85, "", FALSE, Txt("from milestone", <<rem, milestones[at]>>, <<>>))>>
        ELSE IF rem > 0 /\ rem <= 500
        THEN <<Cand(70, "", FALSE, Txt("from milestone", <<rem, milestones[at]>>, <<>>))>>
        ELSE IF rem > 0
        THEN <<Cand(55, "", FALSE, Txt("from milestone", <<rem, milestones[at]>>, <<>>))>>
        ELSE <<Cand(90, "", FALSE, Txt("crossed milestone", <<milestones[at]>>, <<>>))>>

\* Season pace vs historical seasons
seasonPaceCandidate(cx, records) ==
    LET currentSeasonPts == sumField(cx.allDays, cx.franchise, "dayPts")
        pace == getSeasonPace(records, cx.franchise, cx.period)
        bestEver  == pace[1].bestPace
        worstEver == pace[1].worstPace
    IN  IF ~(cx.projection # None /\ cx.period >= 3) THEN <<>>
        ELSE IF pace = None THEN <<>>
        ELSE IF Len(pace[1].historicalPaces) < 2 THEN <<>>
        ELSE IF currentSeasonPts > 10 * bestEver.totalThroughPeriod
        THEN <<Cand(65, "", FALSE, Txt("best-ever pace",
                    <<cx.period, bestEver.totalThroughPeriod, bestEver.season>>, <<>>))>>
        ELSE IF 100 * currentSeasonPts >= 950 * bestEver.totalThroughPeriod
        THEN <<Cand(50, "", FALSE, Txt("near best-ever pace",
                    <<cx.period, bestEver.totalThroughPeriod, bestEver.season>>, <<>>))>>
        ELSE IF /\ 100 * currentSeasonPts < 1050 * worstEver.totalThroughPeriod
                /\ Len(pace[1].historicalPaces) >= 4
        THEN <<Cand(50, "", FALSE, Txt("slowest pace", <<cx.period, worstEver.season>>, <<>>))>>
        ELSE <<>>

\* Period dominance
dominanceCandidate(cx, matchups) ==
    LET dominance == getPeriodDominance(matchups, cx.period, cx.franchise)
    IN  IF dominance.totalOccurrences < 3 THEN <<>>
        ELSE IF dominance.wins >= 3
        THEN <<Cand(55, "", FALSE, Txt("has won period", <<cx.period, dominance.wins>>, <<>>))>>
        ELSE IF dominance.wins = 0 /\ dominance.totalOccurrences >= 5
        THEN <<Cand(50, "", FALSE, Txt("never won period",
                    <<cx.period, dominance.totalOccurrences>>, <<>>))>>
        ELSE IF /\ dominance.topWinner # ""
                /\ dominance.topWinner # cx.franchise
                /\ dominance.topWinnerWins >= 3
        THEN <<Cand(40, "", FALSE, Txt("period belongs to",
                    <<cx.period, dominance.topWinnerWins>>,
                    <<FRANCHISE_TO_OWNER(dominance.topWinner)>>))>>
        ELSE <<>>

\* toFranchise(t.franchise) || toFranchise(t.name) || t.franchise
scrapeFranchise(t) ==
    orElse(orElse(toFranchise(t.franchise), toFranchise(t.name)), t.franchise)

\* H2H "never beaten": only for a franchise in the period's top 2, against the
\* other one.
h2hCandidate(cx, matchups) ==
    LET periodStandings == computePeriodStandings(cx.periodDays, cx.franchise)
        standingOf(t)   == computePeriodStandings(cx.periodDays, scrapeFranchise(t))
        withStanding    == SelectSeq(cx.teams, LAMBDA t : standingOf(t) # None)
        allPeriodRanks  == sortAscBy(Array([i \in 1..Len(withStanding) |->
                                         [franchise |-> scrapeFranchise(withStanding[i]),
                                          rank |-> standingOf(withStanding[i])[1].currentRank]]),
                                     LAMBDA r : r.rank)
        rivalAt == findPlace(allPeriodRanks, LAMBDA r : r.franchise # cx.franchise /\ r.rank <= 2)
        rival   == allPeriodRanks[rivalAt].franchise
        h2h     == getH2HPeriodRecord(matchups, cx.period, cx.franchise, rival)
    IN  IF ~(Len(cx.teams) > 0 /\ Len(cx.periodDays) >= 3) THEN <<>>
        ELSE IF periodStandings = None THEN <<>>
        ELSE IF ~(periodStandings[1].currentRank <= 2) \/ rivalAt = 0 THEN <<>>
        ELSE IF h2h = None THEN <<>>
        ELSE IF h2h[1].neverBeatenByB /\ h2h[1].total >= 3
        THEN <<Cand(60, "", FALSE, Txt("undefeated vs", <<cx.period, h2h[1].winsA>>,
                                       <<franchiseName(rival)>>))>>
        ELSE IF h2h[1].neverBeatenByA /\ h2h[1].total >= 3
        THEN <<Cand(55, "", FALSE, Txt("never beaten", <<cx.period, h2h[1].winsB>>,
                                       <<franchiseName(rival)>>))>>
        ELSE <<>>

\* Franchise hot or cold streak across periods
matchupStreakCandidate(cx, matchups) ==
    LET streak == getFranchiseMatchupStreak(matchups, cx.franchise)
    IN  IF streak = None THEN <<>>
        ELSE IF streak[1].type = "W" /\ streak[1].streak >= 3
        THEN <<Cand(Min(80, 40 + streak[1].streak * 10), "", FALSE,
                    Txt("period win streak", <<streak[1].streak>>, <<>>))>>
        ELSE IF streak[1].type = "L" /\ streak[1].streak >= 3 /\ streak[1].lastWin # None
        THEN <<Cand(Min(75, 35 + streak[1].streak * 10), "", FALSE,
                    Txt("no period win since",
                        <<streak[1].lastWin[1].period, streak[1].lastWin[1].season>>, <<>>))>>
        ELSE <<>>

\* Math.round(base * projConfidence), projConfidence being
\* Math.min(1.0, 0.3 + (daysPlayed / totalDays) * 0.9).
\* projConfidence = Math.min(1.0, 0.3 + (daysPlayed / totalDays) * 0.9), as the
\* fraction <<numerator, denominator>>; <<1, 1>> is 1.0.
projConfidence(projection) ==
    LET num == 3 * projection.totalDays + 9 * projection.daysPlayed
        den == 10 * projection.totalDays
    IN  IF num >= den THEN <<1, 1>> ELSE <<num, den>>

\* Math.round(base * projConfidence)
confident(base, projection) ==
    LET c == projConfidence(projection)
    IN  RoundDiv(base * c[1], c[2])

\* Projected vs the all-time league record for this period number
leagueRecordCandidate(cx, records) ==
    LET projection   == cx.projection[1]
        leagueRecord == getLeaguePeriodRecord(records, cx.period)
        rec  == leagueRecord[1]
        nums == <<projection.projected, cx.period, RoundDiv(rec.fpts, 10), rec.season>>
    IN  IF leagueRecord = None THEN <<>>
        ELSE IF ~(rec.fpts > 0) THEN <<>>
        ELSE IF 10 * projection.projected > rec.fpts
        THEN <<Cand(confident(80, projection), "proj", FALSE,
                    Txt("would beat league record", nums, <<franchiseName(rec.franchise)>>))>>
        ELSE IF 100 * projection.projected >= 9 * rec.fpts
        THEN <<Cand(confident(60, projection), "proj", FALSE,
                    Txt("closing on league record", nums, <<franchiseName(rec.franchise)>>))>>
        ELSE <<>>

\* Projected vs the league's worst for this period number
leagueWorstCandidate(cx, records) ==
    LET projection    == cx.projection[1]
        periodHistory == getPeriodHistory(records, cx.period)
        leagueWorst   == reduceWorst(periodHistory)
    IN  IF Len(periodHistory) < 6 THEN <<>>
        ELSE IF 10 * projection.projected < leagueWorst.fpts
        THEN <<Cand(confident(65, projection), "proj", FALSE,
                    Txt("tracking league worst",
                        <<projection.projected, cx.period, RoundDiv(leagueWorst.fpts, 10),
                          leagueWorst.season>>,
                        <<franchiseName(leagueWorst.franchise)>>))>>
        ELSE <<>>

\* Projected vs the franchise's own best for this period number
personalBestCandidate(cx, records) ==
    LET projection == cx.projection[1]
        myBest == getFranchisePeriodBest(records, cx.period, cx.franchise)
        best   == myBest[1]
        nums   == <<projection.projected, cx.period, RoundDiv(best.fpts, 10), best.season>>
    IN  IF myBest = None THEN <<>>
        ELSE IF ~(best.fpts > 0) THEN <<>>
        ELSE IF 10 * projection.projected > best.fpts
        THEN <<Cand(confident(70, projection), "proj", FALSE, Txt("would be personal best", nums, <<>>))>>
        ELSE IF 100 * projection.projected >= 9 * best.fpts
        THEN <<Cand(confident(45, projection), "proj", FALSE, Txt("nearing personal best", nums, <<>>))>>
        ELSE <<>>

\* Projected vs the franchise's own worst for this period number
personalWorstCandidate(cx, records) ==
    LET projection == cx.projection[1]
        myHistory  == SelectSeq(getPeriodHistory(records, cx.period),
                                LAMBDA h : h.franchise = cx.franchise)
        myWorst    == reduceWorst(myHistory)
    IN  IF Len(myHistory) < 3 THEN <<>>
        ELSE IF 10 * projection.projected < myWorst.fpts
        THEN <<Cand(confident(55, projection), "proj", FALSE,
                    Txt("tracking personal worst",
                        <<projection.projected, cx.period, RoundDiv(myWorst.fpts, 10),
                          myWorst.season>>, <<>>))>>
        ELSE <<>>

\* What a fetch resolved to: the parsed rows, or [] after a response that was
\* not OK.
resolved(outcome, content) == IF outcome = "records" THEN content ELSE <<>>

\* A reading in which every query has a try of its own: a tab that fails costs
\* only the detectors that query it.
archiveCandidates_EachWrapped(cx, archive, net) ==
    LET records  == resolved(net.db, archive.records)
        matchups == resolved(net.hist, archive.matchups)
        projected == cx.projection # None /\ cx.projection[1].projected > 0
    IN  (IF net.db = "failed" THEN <<>>
         ELSE milestoneCandidate(cx, records) \o seasonPaceCandidate(cx, records))
        \o (IF net.hist = "failed" THEN <<>>
            ELSE dominanceCandidate(cx, matchups) \o h2hCandidate(cx, matchups)
                 \o matchupStreakCandidate(cx, matchups))
        \o (IF projected /\ net.db # "failed"
            THEN leagueRecordCandidate(cx, records) \o leagueWorstCandidate(cx, records)
                 \o personalBestCandidate(cx, records) \o personalWorstCandidate(cx, records)
            ELSE <<>>)

\* The try block.  Its awaits come in this order: getCareerTotalPoints (the
\* Database tab), getSeasonPace (the same), getPeriodDominance (the Historical
\* tab), then the rest.  A tab whose fetch rejects throws at the first query
\* of it, and the catch ends the block with what was pushed so far.
archiveCandidates(cx, archive, net) ==
    LET records  == resolved(net.db, archive.records)
        matchups == resolved(net.hist, archive.matchups)
        projected == cx.projection # None /\ cx.projection[1].projected > 0
    IN  IF net.db = "failed" THEN <<>>
        ELSE milestoneCandidate(cx, records) \o seasonPaceCandidate(cx, records)
             \o (IF net.hist = "failed" THEN <<>>
                 ELSE dominanceCandidate(cx, matchups) \o h2hCandidate(cx, matchups)
                      \o matchupStreakCandidate(cx, matchups)
                      \o (IF projected
                          THEN leagueRecordCandidate(cx, records)
                               \o leagueWorstCandidate(cx, records)
                               \o personalBestCandidate(cx, records)
                               \o personalWorstCandidate(cx, records)
                          ELSE <<>>))

(***************************************************************************)
(* analyze.js: buildNarratives, selection and fallbacks                    *)
(***************************************************************************)
categoryUsed_Never(c, usedCats) == FALSE

\* c.cat && usedCats.has(c.cat)
categoryUsed(c, usedCats) == c.cat # "" /\ c.cat \in usedCats

RECURSIVE pickLoop_TakesOne(_, _, _)
pickLoop_TakesOne(cands, picked, usedCats) ==
    IF cands = <<>> \/ Len(picked) >= 1 THEN picked
    ELSE IF categoryUsed(Head(cands), usedCats)
    THEN pickLoop_TakesOne(Tail(cands), picked, usedCats)
    ELSE pickLoop_TakesOne(Tail(cands), Append(picked, Head(cands)),
                           IF Head(cands).cat # "" THEN usedCats \cup {Head(cands).cat}
                           ELSE usedCats)

\* The loop over the sorted candidates: at most 2 are taken, a candidate
\* whose category was taken already is passed over.
RECURSIVE pickLoop(_, _, _)
pickLoop(cands, picked, usedCats) ==
    IF cands = <<>> \/ Len(picked) >= 2 THEN picked
    ELSE IF categoryUsed(Head(cands), usedCats) THEN pickLoop(Tail(cands), picked, usedCats)
    ELSE pickLoop(Tail(cands), Append(picked, Head(cands)),
                  IF Head(cands).cat # "" THEN usedCats \cup {Head(cands).cat} ELSE usedCats)

pickTop_Unsorted(candidates) == pickLoop(candidates, <<>>, {})

\* candidates.sort((a, b) => b.score - a.score), then the loop.
pickTop(candidates) == pickLoop(sortDescBy(candidates, LAMBDA c : c.score), <<>>, {})

\* Lens 1: today against the other teams
lensDayRank(cx) ==
    LET todaySorted == sortDescBy(cx.teams, LAMBDA t : t.dayPts)
        myRankToday == findPlace(todaySorted, LAMBDA t : scrapeFranchise(t) = cx.franchise)
        leader == todaySorted[1]
        leaderFranchise == scrapeFranchise(leader)
        margin == cx.todayDayPts - todaySorted[2].dayPts
        gap    == leader.dayPts - cx.todayDayPts
    IN  IF ~(Len(cx.teams) > 0 /\ cx.todayDayPts > 0) THEN <<>>
        ELSE IF myRankToday = 1 /\ Len(todaySorted) > 1
        THEN (IF margin > 0 THEN <<Txt("won the day by", <<RoundDiv(margin, 10)>>, <<>>)>>
              ELSE <<>>)
        ELSE IF leaderFranchise # cx.franchise
        THEN (IF gap > 0
              THEN <<Txt("behind today's leader", <<RoundDiv(gap, 10)>>,
                         <<franchiseName(leaderFranchise)>>)>>
              ELSE <<>>)
        ELSE <<>>

\* Lens 2: today's PPG against the season's.  todayDayPts is in tenths, ppg in
\* hundredths.
lensPpg(cx) ==
    LET ppg == cx.ppg[1]
        pctVsSeason == RoundDiv(100 * (10 * cx.todayDayPts - ppg * cx.todayGP), ppg * cx.todayGP)
        todayPPG == toFixed2(cx.todayDayPts, cx.todayGP)
    IN  IF cx.ppg = None THEN <<>>
        ELSE IF ~(cx.todayGP > 0 /\ ppg > 0) THEN <<>>
        ELSE IF pctVsSeason >= 25
        THEN <<Txt("PPG above season avg", <<todayPPG, pctVsSeason>>, <<>>)>>
        ELSE IF pctVsSeason <= -25
        THEN <<Txt("PPG below season avg", <<todayPPG, Abs(pctVsSeason)>>, <<>>)>>
        ELSE <<>>

\* Lens 3: the period standing
lensPeriodStanding(cx) ==
    LET currentPeriodRank == computePeriodRankAtDay(cx.periodDays, cx.franchise)
        periodSorted == totalsSorted(cx.periodDays)
        myPeriodPts  == periodSorted[currentPeriodRank].total
        lead   == myPeriodPts - periodSorted[2].total
        placed == <<Txt("place in period",
                        <<currentPeriodRank, cx.period, RoundDiv(myPeriodPts, 10)>>, <<>>)>>
    IN  IF Len(cx.periodDays) < 2 \/ currentPeriodRank = 0 THEN <<>>
        ELSE IF currentPeriodRank <= 2 /\ Len(periodSorted) > 1
        THEN (IF currentPeriodRank = 1 /\ lead > 0
              THEN <<Txt("leading period by", <<cx.period, RoundDiv(lead, 10)>>, <<>>)>>
              ELSE placed)
        ELSE IF currentPeriodRank >= Len(periodSorted) - 1 THEN placed
        ELSE <<>>

\* The sum of the fractions xs[i][1] / xs[i][2], as <<numerator, denominator>>.
RECURSIVE sumFractions(_)
sumFractions(xs) ==
    IF xs = <<>> THEN <<0, 1>>
    ELSE LET r == sumFractions(Tail(xs))
         IN  <<Head(xs)[1] * r[2] + r[1] * Head(xs)[2], Head(xs)[2] * r[2]>>

\* Lens 4: this period's pace against the franchise's other periods
lensOwnPeriods(cx) ==
    LET ownPeriodTotals == computeAllPeriodTotals(cx.allDays, cx.franchise)
        myPeriodPts == sumField(cx.periodDays, cx.franchise, "dayPts")
        others   == SelectSeq(ownPeriodTotals, LAMBDA p : p.period # cx.period /\ p.total > 0)
        prevPPGs == Array([i \in 1..Len(others) |->
                        <<others[i].total, Len(getDaysForPeriod(cx.allDays, others[i].period))>>])
        s == sumFractions(prevPPGs)
        \* (myPeriodPPG - avgPrevPPG) / avgPrevPPG * 100, with
        \* myPeriodPPG = myPeriodPts / periodDays.length, avgPrevPPG = s / prevPPGs.length
        pctDiff == RoundDiv(100 * (myPeriodPts * Len(prevPPGs) * s[2] - s[1] * Len(cx.periodDays)),
                            s[1] * Len(cx.periodDays))
    IN  IF ~(Len(ownPeriodTotals) >= 2 /\ Len(cx.periodDays) >= 3) THEN <<>>
        ELSE IF Len(prevPPGs) = 0 THEN <<>>
        ELSE IF pctDiff >= 15 THEN <<Txt("pace above career avg", <<cx.period, pctDiff>>, <<>>)>>
        ELSE IF pctDiff <= -15
        THEN <<Txt("pace below career avg", <<cx.period, Abs(pctDiff)>>, <<>>)>>
        ELSE <<>>

\* The fill with the fallback lines put before the picked ones.
fillFrom_LinesFirst(picked, fallbacks) ==
    IF Len(picked) >= 2 THEN picked
    ELSE SubSeq(fallbacks, 1, Min(2 - Len(picked), Len(fallbacks))) \o picked

\* "for (const fb of fallbacks) { if (picked.length >= 2) break;
\*  if (!picked.includes(fb)) picked.push(fb) }"
RECURSIVE fillFrom(_, _)
fillFrom(picked, fallbacks) ==
    IF fallbacks = <<>> \/ Len(picked) >= 2 THEN picked
    ELSE IF \E i \in 1..Len(picked) : picked[i] = Head(fallbacks)
    THEN fillFrom(picked, Tail(fallbacks))
    ELSE fillFrom(Append(picked, Head(fallbacks)), Tail(fallbacks))

\* The absolute last resort, when nothing was picked.
lastResort(cx) ==
    IF cx.projection # None
    THEN <<Txt("proj finish", <<cx.projection[1].projected>>, <<>>)>>
    ELSE IF cx.ppg # None /\ cx.ppg # Some(0)
    THEN <<Txt("season avg", <<cx.ppg[1]>>, <<>>)>>
    ELSE <<>>

\* The candidates of a call, the local ones first.
narrativeCandidates(cx, archive, net) == localCandidates(cx) \o archiveCandidates(cx, archive, net)

\* The texts returned for a context and its candidates, with the candidates
\* and the ones the selection pass took.
narrativesOf(cx, candidates) ==
    LET selected == pickTop(candidates)
        picked   == Array([i \in 1..Len(selected) |-> selected[i].text])
        filled   == fillFrom(picked, lensDayRank(cx) \o lensPpg(cx)
                                       \o lensPeriodStanding(cx) \o lensOwnPeriods(cx))
    IN  [candidates |-> candidates,
         selected |-> selected,
         texts    |-> IF Len(picked) >= 2 THEN picked
                      ELSE IF Len(filled) = 0 THEN lastResort(cx)
                      ELSE filled]

tooFewDays_NoDay(days) == Len(days) < 1

\* if (allDays.length < 2) return []
tooFewDays(days) == Len(days) < 2

\* buildNarratives: the texts it returns, with its candidates and the ones its
\* selection pass took.
buildNarratives(days, franchise, period, todayDayPts, todayGP, projection, avg3d, ppg, todayScrapeTeams, archive, net) ==
    IF tooFewDays(days) THEN [candidates |-> <<>>, selected |-> <<>>, texts |-> <<>>]
    ELSE only({ only({ narrativesOf(cx, candidates) :
                       candidates \in {narrativeCandidates(cx, archive, net)} }) :
                cx \in {narrativeContext(days, franchise, period, todayDayPts, todayGP,
                                         projection, avg3d, ppg, todayScrapeTeams)} })

(***************************************************************************)
(* analyze.js: buildNightlyAnalysis                                        *)
(***************************************************************************)
\* toFranchise(t.franchise) || toFranchise(t.name) || t.franchise || t.name
teamFranchise(t) == orElse(scrapeFranchise(t), t.name)

\* +((t.dayPts || 0) - t.projPts).toFixed(2) when projPts is not 0, in
\* hundredths; dayPts is in tenths, projPts in hundredths.
vsProj(t) == IF t.projPts # 0 THEN Some(10 * t.dayPts - t.projPts) ELSE None

\* The entry of teamStats for one team of today's scrape.  candidates and
\* selected are not in the source's object: they are the candidates of the
\* call that made streaks and the ones its selection pass took, kept to say
\* where a narrative came from.
teamStat(days, todayScrape, t, archive, net) ==
    only({ only({ [franchise  |-> franchise,
                   name       |-> t.name,
                   dayPts     |-> t.dayPts,
                   projPts    |-> t.projPts,
                   gp         |-> t.gp,
                   ppg        |-> seasonPPG(days, franchise),
                   avg3d      |-> rollingAvgPPG(days, franchise, 3),
                   avg7d      |-> rollingAvgPPG(days, franchise, 7),
                   vsProj     |-> vsProj(t),
                   streaks    |-> narratives.texts,
                   candidates |-> narratives.candidates,
                   selected   |-> narratives.selected,
                   projection |-> projection,
                   periodPts  |-> IF projection # None THEN projection[1].periodPts ELSE 0] :
                  narratives \in {buildNarratives(days, franchise, todayScrape.period,
                                      t.dayPts, t.gp, projection,
                                      rollingAvgPPG(days, franchise, 3),
                                      seasonPPG(days, franchise),
                                      todayScrape.teams, archive, net)} }) :
           franchise \in {teamFranchise(t)},
           projection \in {projectPeriodFinish(days, teamFranchise(t), todayScrape.period)} })

rankAt_ByKey(keys, i) == 1 + Cardinality({j \in 1..Len(keys) : keys[j] > keys[i]})

\* "sorted.forEach((t, i) => { t.rank = i + 1 })": the rank of the team at
\* place i of a sorted list, keys being the list's sort keys.
rankAt(keys, i) == i

\* t.franchise || toFranchise(t.name)
totalsFranchise(t) == orElse(t.franchise, toFranchise(t.name))

\* What the teams of a record add to seasonTotals[f].
addedTo(f, teams) ==
    sumSeq(Array([i \in 1..Len(teams) |-> IF totalsFranchise(teams[i]) = f THEN teams[i].dayPts ELSE 0]))

seasonTotal_AlwaysAddsToday(days, todayScrape, f) ==
    addedTo(f, allTeams(days)) + addedTo(f, todayScrape.teams)

\* seasonTotals[f] for a franchise of today's scrape: its points in the loaded
\* days, and today's when no loaded day has today's date.
seasonTotal(days, todayScrape, f) ==
    LET todayInHistory == \E i \in 1..Len(days) : days[i].date = todayScrape.date
    IN  addedTo(f, allTeams(days))
          + (IF ~todayInHistory THEN addedTo(f, todayScrape.teams) ELSE 0)

\* The ranked list for the teamStats: by dayPts, each team with its dayRank
\* and its seasonPts.  seasonPts is +(seasonTotals[t.franchise] || 0).toFixed(1):
\* the tenths the total is held in.
rankByDay(days, todayScrape, teamStats) ==
    LET dayOrder == descOrder(Array([i \in 1..Len(teamStats) |-> teamStats[i].dayPts]))
        dayKeys  == Array([p \in 1..Len(dayOrder) |-> teamStats[dayOrder[p]].dayPts])
    IN  Array([p \in 1..Len(dayOrder) |->
            [franchise |-> teamStats[dayOrder[p]].franchise,
             stats     |-> teamStats[dayOrder[p]],
             dayRank   |-> rankAt(dayKeys, p),
             seasonPts |-> seasonTotal(days, todayScrape, teamStats[dayOrder[p]].franchise)]])

\* The ranked list with each team's seasonRank: its place when the list is
\* sorted by seasonPts.
rankBySeason(ranked) ==
    LET seasonOrder == descOrder(Array([p \in 1..Len(ranked) |-> ranked[p].seasonPts]))
        seasonKeys  == Array([q \in 1..Len(seasonOrder) |-> ranked[seasonOrder[q]].seasonPts])
    IN  Array([p \in 1..Len(ranked) |->
            [franchise  |-> ranked[p].franchise,
             stats      |-> ranked[p].stats,
             dayRank    |-> ranked[p].dayRank,
             seasonPts  |-> ranked[p].seasonPts,
             seasonRank |-> rankAt(seasonKeys,
                                   CHOOSE q \in 1..Len(seasonOrder) : seasonOrder[q] = p)]])

\* The object buildNightlyAnalysis returns, for the ranked list.  teams is
\* that list with the season ranks; seasonRanked holds the same teams in
\* season order.
analysisOfRanked(days, todayScrape, ranked) ==
    only({ [date             |-> todayScrape.date,
            period           |-> todayScrape.period,
            teams            |-> teams,
            seasonRanked     |-> sortDescBy(teams, LAMBDA t : t.seasonPts),
            periodDaysPlayed |-> Len(getDaysForPeriod(days, todayScrape.period)),
            totalSeasonDays  |-> Len(days)] :
           teams \in {rankBySeason(ranked)} })

analysisOfStats(days, todayScrape, teamStats) ==
    only({ analysisOfRanked(days, todayScrape, ranked) :
           ranked \in {rankByDay(days, todayScrape, teamStats)} })

analysisOfDays_LastDayTeams(days, todayScrape, archive, net) ==
    only({ analysisOfStats(days, todayScrape, teamStats) :
           teamStats \in {Array([i \in 1..Len(teams) |->
                             teamStat(days, todayScrape, teams[i], archive, net)]) :
                          teams \in {IF todayScrape.teams = <<>> /\ days # <<>>
                                     THEN days[Len(days)].teams
                                     ELSE todayScrape.teams}} })

\* buildNightlyAnalysis once the history is loaded.
analysisOfDays(days, todayScrape, archive, net) ==
    only({ analysisOfStats(days, todayScrape, teamStats) :
           teamStats \in {Array([i \in 1..Len(todayScrape.teams) |->
                             teamStat(days, todayScrape, todayScrape.teams[i], archive, net)])} })

\* buildNightlyAnalysis(todayScrape) over the files of the store.
buildNightlyAnalysis(files, todayScrape, archive, net) ==
    only({ analysisOfDays(days, todayScrape, archive, net) :
           days \in {loadAllDailyScores(files)} })

(***************************************************************************)
(* Claims about the archive client (SpecFetch)                             *)
(***************************************************************************)
\* The requests of a dataset that are on the network: issued and not yet
\* answered, or answered OK with the body not yet read.
InFlight(d) == {id \in 1..Len(fetches) :
                    fetches[id].dataset = d /\ fetches[id].net \in {"inflight", "ok", "reading"}}

Succeeded(d) == \E id \in 1..Len(fetches) :
                    fetches[id].dataset = d /\ fetches[id].promise = "records"

Issued(d) == Cardinality({id \in 1..Len(fetches) : fetches[id].dataset = d})

\* C6: for each dataset at most one network fetch is in flight at any time;
\* every caller that arrived while it is in flight awaits the one promise that
\* owns it, which is the cached one; and once a fetch of a dataset has
\* succeeded no further fetch of that dataset is issued.
C6_SingleFlight ==
    /\ [](\A d \in Datasets :
            /\ Cardinality(InFlight(d)) <= 1
            /\ \A id \in InFlight(d) :
                  /\ cache[d] = Some(id)
                  /\ \A c \in Callers :
                        (callers[c].pc = "awaiting"
                           /\ fetches[callers[c].promise].dataset = d
                           /\ fetches[callers[c].promise].promise = "pending")
                        => callers[c].promise = id)
    /\ [][\A d \in Datasets : Succeeded(d) => Issued(d)' = Issued(d)]_vars

\* Two callers await the one in-flight request of a dataset, after an earlier
\* request of that dataset was answered not-OK.
C6_Witness ==
    \E d \in Datasets, id \in 1..Len(fetches) :
        /\ id \in InFlight(d)
        /\ \A c \in Callers : callers[c].pc = "awaiting" /\ callers[c].promise = id
        /\ \E old \in 1..Len(fetches) : fetches[old].dataset = d /\ fetches[old].promise = "empty"

\* The requests of a dataset whose fetch rejected.
Refused(d) == {id \in 1..Len(fetches) : fetches[id].dataset = d /\ fetches[id].net = "failed"}

\* A caller makes its call of dataset d in this step.
Calls(c, d) ==
    /\ callers[c].pc = "idle"
    /\ callers'[c].pc = "awaiting"
    /\ fetches'[callers'[c].promise].dataset = d

\* C30: a response that is not OK clears the cached promise and resolves the
\* call to the empty list, and the next call of the dataset issues a new
\* fetch; a fetch that rejects leaves its promise cached, rejected, so that
\* every later call of the dataset is handed that promise and no further fetch
\* of the dataset is issued.
C30_FailureMemoization ==
    /\ [](\A id \in 1..Len(fetches) :
            /\ (fetches[id].net = "notOk" /\ fetches[id].promise # "pending")
                   => /\ fetches[id].promise = "empty"
                      /\ cache[fetches[id].dataset] # Some(id)
            /\ fetches[id].net = "failed"
                   => /\ cache[fetches[id].dataset] = Some(id)
                      /\ fetches[id].promise \in {"pending", "rejected"}
            /\ \A c \in Callers :
                   (callers[c].pc = "got" /\ callers[c].promise = id)
                       => callers[c].result = CASE fetches[id].net = "notOk"  -> "empty"
                                                [] fetches[id].net = "failed" -> "rejected"
                                                [] OTHER -> callers[c].result)
    /\ [][\A d \in Datasets :
             /\ \A id \in 1..Len(fetches) :
                    (fetches[id].dataset = d /\ fetches[id].net = "notOk"
                        /\ fetches[id].promise = "pending" /\ fetches'[id].promise # "pending")
                    => cache'[d] = None
             /\ \A c \in Callers :
                    (Calls(c, d) /\ cache[d] = None)
                        => /\ Issued(d)' = Issued(d) + 1
                           /\ callers'[c].promise = Len(fetches')
                           /\ fetches'[Len(fetches')].net = "inflight"
             /\ Refused(d) # {}
                    => /\ Issued(d)' = Issued(d)
                       /\ \A c \in Callers : Calls(c, d) => callers'[c].promise \in Refused(d)]_vars

\* After a request answered not-OK a second request of the dataset was made;
\* it rejected, one caller has got the rejection and another waits on the same
\* promise, which is the cached one.
C30_Witness ==
    \E d \in Datasets, id \in 1..Len(fetches) :
        /\ id \in Refused(d)
        /\ fetches[id].promise = "rejected"
        /\ cache[d] = Some(id)
        /\ \E old \in 1..Len(fetches) :
              old < id /\ fetches[old].dataset = d /\ fetches[old].promise = "empty"
        /\ \E a, b \in Callers :
              /\ callers[a].pc = "got" /\ callers[a].promise = id /\ callers[a].result = "rejected"
              /\ callers[b].pc = "awaiting" /\ callers[b].promise = id

(***************************************************************************)
(* The rolling statistics over a growing history.                          *)
(***************************************************************************)
MaxDays == 3
MaxWindow == 3

StatsFranchises == {"JGC", "PWN"}
\* What JGC can have on a day: [dayPts (tenths), gp].
StatsEntries == { [dayPts |-> 0,  gp |-> 0], [dayPts |-> 1,  gp |-> 0],
                  [dayPts |-> 1,  gp |-> 1], [dayPts |-> 25, gp |-> 3] }
StatsStartDates == {12, 182}
StatsPeriods == {1, 2, 13, 14}

team(franchise, e) == [franchise |-> franchise, dayPts |-> e.dayPts, gp |-> e.gp]

\* PWN plays every day; JGC is in the record or not.
StatsTeams ==
    LET pwn == team("PWN", [dayPts |-> 10, gp |-> 1])
    IN  {<<pwn>>} \cup {<<team("JGC", e), pwn>> : e \in StatsEntries}
                  \cup {<<pwn, team("JGC", e)>> : e \in {[dayPts |-> 25, gp |-> 3]}}

nextDates(days) ==
    IF days = <<>> THEN StatsStartDates
    ELSE {d \in {days[Len(days)].date + 1} : getPeriodForDate(d) # None}

StatsInit ==
    /\ allDays = <<>>
    /\ query = None
    /\ FetchIdle
    /\ NightlyIdle
    /\ RestIdle

\* One more stored day, as the nightly run leaves it: its period is the one
\* of its date.
StatsSaveDay ==
    /\ Len(allDays) < MaxDays
    /\ \E date \in nextDates(allDays), teams \in StatsTeams :
          allDays' = Append(allDays, [date   |-> date,
                                      period |-> getPeriodForDate(date)[1],
                                      teams  |-> teams])
    /\ query' = None
    /\ UNCHANGED <<fetchVars, nightlyVars, restVars>>

StatsCompute ==
    /\ \E franchise \in StatsFranchises, n \in 1..MaxWindow, period \in StatsPeriods :
          query' = Some([franchise  |-> franchise,
                         n          |-> n,
                         period     |-> period,
                         avg        |-> rollingAvgPPG(allDays, franchise, n),
                         ppg        |-> seasonPPG(allDays, franchise),
                         projection |-> projectPeriodFinish(allDays, franchise, period)])
    /\ UNCHANGED allDays
    /\ UNCHANGED <<fetchVars, nightlyVars, restVars>>

StatsNext == StatsSaveDay \/ StatsCompute

SpecStats == StatsInit /\ [][StatsNext]_vars

(***************************************************************************)
(* Claims about the rolling statistics (SpecStats)                         *)
(***************************************************************************)
\* The records of the history in which the franchise appears, by position.
Qualifying(days, franchise) == {i \in 1..Len(days) : hasTeam(days[i], franchise)}

\* The w last positions of a set of positions.
LastOf(S, w) == {i \in S : Cardinality({j \in S : j > i}) < w}

RECURSIVE SumAt(_, _, _, _)
SumAt(days, S, franchise, field) ==
    IF S = {} THEN 0
    ELSE LET i == CHOOSE j \in S : TRUE
         IN  findTeam(days[i].teams, franchise)[1][field]
             + SumAt(days, S \ {i}, franchise, field)

Window(days, franchise, n) ==
    LastOf(Qualifying(days, franchise),
           Min(n, Cardinality(Qualifying(days, franchise))))

\* C8 (as claimed): seasonPPG and rollingAvgPPG return the same value whenever
\* n is at least the number of records in which the franchise appears.
C8_SeasonEqualsRolling ==
    query # None =>
        LET q == query[1]
        IN  q.n >= Cardinality(Qualifying(allDays, q.franchise)) => q.avg = q.ppg

\* C9: rollingAvgPPG is decided by the last min(n, k) records in which the
\* franchise appears (records without it are skipped, not zero-filled): null
\* when there is none, otherwise sum(dayPts)/sum(gp) over that window when
\* sum(gp) > 0 and sum(dayPts)/window size otherwise, to 2 decimals; and
\* replacing a record older than a full window by any record, or by one
\* without the franchise when the window is not full, leaves the result as it is.
C9_RollingWindow ==
    query # None =>
        LET q   == query[1]
            W   == Window(allDays, q.franchise, q.n)
            pts == SumAt(allDays, W, q.franchise, "dayPts")
            gp  == SumAt(allDays, W, q.franchise, "gp")
        IN  /\ W = {} => q.avg = None
            /\ (W # {} /\ gp > 0) => q.avg = Some(RoundDiv(10 * pts, gp))
            /\ (W # {} /\ gp = 0) => q.avg = Some(RoundDiv(10 * pts, Cardinality(W)))
            /\ \A i \in 1..Len(allDays), teams \in StatsTeams :
                  (/\ \A j \in W : i < j
                   /\ \/ Cardinality(W) = q.n
                      \/ ~hasTeam([teams |-> teams], q.franchise))
                  => rollingAvgPPG([allDays EXCEPT ![i].teams = teams],
                                   q.franchise, q.n) = q.avg

\* A window of 2 over three appearances, the day before the last one skipped.
C9_Witness ==
    /\ query # None
    /\ query[1].n < Cardinality(Qualifying(allDays, query[1].franchise))
    /\ query[1].avg # None
    /\ \E i \in 1..Len(allDays) :
          /\ ~hasTeam(allDays[i], query[1].franchise)
          /\ \E j \in Window(allDays, query[1].franchise, query[1].n) : j < i

\* The projection's null cases, then a bound on projected.
projectionNull(days, period) ==
    getDaysForPeriod(days, period) = <<>> \/ periodConfig(period) = None

\* C10 (as claimed): null when daysPlayed is 0 or the period is not in PERIODS;
\* otherwise projected >= periodPts.
C10_ProjectedAtLeastPeriodPts ==
    query # None =>
        LET q == query[1]
        IN  IF projectionNull(allDays, q.period) THEN q.projection = None
            ELSE /\ q.projection # None
                 /\ 10 * q.projection[1].projected >= q.projection[1].periodPts

\* C10 (amended): null when daysPlayed is 0 or the period is not in PERIODS;
\* otherwise a projection is returned and projected is at least periodPts
\* rounded to the nearest whole point.
C10_ProjectedAtLeastRoundedPeriodPts ==
    query # None =>
        LET q == query[1]
        IN  IF projectionNull(allDays, q.period) THEN q.projection = None
            ELSE /\ q.projection # None
                 /\ q.projection[1].projected >= RoundDiv(q.projection[1].periodPts, 10)

C10_Witness ==
    /\ query # None
    /\ query[1].projection # None
    /\ query[1].projection[1].periodPts > 0
    /\ query[1].projection[1].daysPlayed >= 2
    /\ query[1].projection[1].projected > 0

\* C11 (as claimed): daysPlayed is the number of records of the period in which
\* the franchise appears, daysRemaining = totalDays - daysPlayed with totalDays
\* the inclusive span of the period, projected = round(periodPts + (periodPts /
\* daysPlayed) * daysRemaining), and the result is null when the franchise has
\* no record in the period.
C11_DaysPlayedCountsOwnRecords ==
    query # None =>
        LET q         == query[1]
            own       == SelectSeq(allDays, LAMBDA d : d.period = q.period /\ hasTeam(d, q.franchise))
            played    == Len(own)
            periodPts == SumAt(own, 1..Len(own), q.franchise, "dayPts")
            span      == PERIODS[CHOOSE i \in 1..Len(PERIODS) : PERIODS[i].period = q.period]
            totalDays == span.end - span.start + 1
        IN  IF played = 0 THEN q.projection = None
            ELSE IF \A i \in 1..Len(PERIODS) : PERIODS[i].period # q.period
                 THEN q.projection = None
            ELSE /\ q.projection # None
                 /\ q.projection[1].daysPlayed = played
                 /\ q.projection[1].totalDays = totalDays
                 /\ q.projection[1].daysRemaining = totalDays - played
                 /\ q.projection[1].projected
                        = RoundDiv(periodPts * played + periodPts * (totalDays - played),
                                   10 * played)


(***************************************************************************)
(* The nightly runs: index.js saves tonight's scrape and analyses it,       *)
(* test-post analyses a stored day again.                                  *)
(***************************************************************************)
MaxNights == 3

\* The first night of the model: the last but one day of period 1, so that
\* the third night opens period 2.
FirstNight == 12

scrapedTeam(name, dayPts, gp) ==
    [name |-> name, dayPts |-> dayPts, projectedFpg |-> 0, gp |-> gp]

\* What the scraper can bring on a night: a full night; a night on which only
\* one team played; a night without games; a night on which one franchise
\* is listed under two names, a team has a name that resolves to nothing, and
\* all score the same; and a full night on which the second and the third of
\* the first one exchange their scores.
NightlyScrapes == {
    <<scrapedTeam("Jason's Gaucho Chudpumpers", 125, 3), scrapedTeam("Cmack's PWN", 100, 2),
      scrapedTeam("Brian's Endless Winter", 25, 1)>>,
    <<scrapedTeam("Jason's Gaucho Chudpumpers", 125, 3), scrapedTeam("Brian's Endless Winter", 0, 0),
      scrapedTeam("Cmack's PWN", 0, 0)>>,
    <<scrapedTeam("Jason's Gaucho Chudpumpers", 0, 0), scrapedTeam("Cmack's PWN", 0, 0),
      scrapedTeam("Brian's Endless Winter", 0, 0)>>,
    <<scrapedTeam("Cmack's PWN", 100, 2), scrapedTeam("PWN", 100, 2),
      scrapedTeam("Unknown Team 3", 100, 2)>>,
    <<scrapedTeam("Jason's Gaucho Chudpumpers", 125, 3), scrapedTeam("Cmack's PWN", 25, 1),
      scrapedTeam("Brian's Endless Winter", 100, 2)>> }

archiveTeam(franchise, fpts) == [franchise |-> franchise, fpts |-> fpts]

\* The sheet's two tabs as the runs find them.
ArchiveContent ==
    [records |-> <<
        [season |-> 2013, period |-> 1,
         teams |-> <<archiveTeam("JGC", 1200), archiveTeam("BEW", 900), archiveTeam("PWN", 1000)>>],
        [season |-> 2013, period |-> 5,
         teams |-> <<archiveTeam("BEW", 7900)>>],
        [season |-> 2014, period |-> 1,
         teams |-> <<archiveTeam("JGC", 1100), archiveTeam("BEW", 800), archiveTeam("PWN", 950)>>] >>,
     matchups |-> <<
        [season |-> 2013, period |-> 2, winner |-> "JGC", loser |-> "BEW"],
        [season |-> 2014, period |-> 2, winner |-> "JGC", loser |-> "PWN"],
        [season |-> 2015, period |-> 2, winner |-> "JGC", loser |-> "BEW"] >>]

\* How the sheet answers in one run, per tab: with the rows, with a response
\* that is not OK, or not at all.  Every request of a tab in a run is answered
\* the same way.
NetOutcomes == {
    [db |-> "records", hist |-> "records"],
    [db |-> "records", hist |-> "failed"],
    [db |-> "failed",  hist |-> "records"],
    [db |-> "notOk",   hist |-> "notOk"] }

\* The dates of the files of the store.
storeDates == {store[i].date : i \in 1..Len(store)}

\* Tonight: the night of the last file again, or the one after it.
tonights ==
    IF store = <<>> THEN {FirstNight}
    ELSE {d \in {store[Len(store)].date, store[Len(store)].date + 1} :
             d < FirstNight + MaxNights /\ getPeriodForDate(d) # None}

NightlyInit ==
    /\ NightlyIdle
    /\ FetchIdle
    /\ allDays = <<>>
    /\ query = None
    /\ RestIdle

\* index.js main: scrape, saveDailyScore, buildNightlyAnalysis(dailyData).
main(today, teams, net) ==
    \E dailyData \in {dailyRecord([period |-> getPeriodForDate(today)[1], teams |-> teams],
                                  today)} :
        /\ store' = writeFile(store, dailyData)
        /\ run' = Some([todayScrape |-> dailyData,
                        net         |-> net,
                        files       |-> store',
                        analysis    |-> buildNightlyAnalysis(store', dailyData, ArchiveContent, net)])
        /\ UNCHANGED <<statsVars, fetchVars, restVars>>

\* test-post: the stored file of a date, given to buildNightlyAnalysis; it
\* stops before that when the day has no point.
testPost(date, net) ==
    /\ date \in storeDates
    /\ \E dailyData \in {store[CHOOSE i \in 1..Len(store) : store[i].date = date]} :
          /\ totalPts(dailyData.teams) # 0
          /\ run' = Some([todayScrape |-> dailyData,
                          net         |-> net,
                          files       |-> store,
                          analysis    |-> buildNightlyAnalysis(store, dailyData, ArchiveContent, net)])
    /\ UNCHANGED <<store, statsVars, fetchVars, restVars>>

NightlyNext ==
    \/ \E today \in tonights, teams \in NightlyScrapes, net \in NetOutcomes : main(today, teams, net)
    \/ \E date \in storeDates, net \in NetOutcomes : testPost(date, net)

SpecNightly == NightlyInit /\ [][NightlyNext]_vars

(***************************************************************************)
(* Claims about the nightly analysis (SpecNightly)                         *)
(***************************************************************************)
\* The teams of the analysis of the last run, with the run they belong to.
RunTeams ==
    UNION {{[r |-> run[k], team |-> run[k].analysis.teams[i]] :
               i \in 1..Len(run[k].analysis.teams)} : k \in 1..Len(run)}

\* The days the last run loaded.
loadedDays(r) == loadAllDailyScores(r.files)

\* How many loaded days of a run hold an entry of a franchise.
ownDays(r, franchise) == Len(SelectSeq(loadedDays(r), LAMBDA d : hasTeam(d, franchise)))

\* The texts of the candidates that need the Database tab only and are
\* pushed before the first query of the Historical tab.
DatabaseFirstKinds == {"from milestone", "crossed milestone", "best-ever pace",
                       "near best-ever pace", "slowest pace"}

\* The texts of the candidates of the historical tier.
ArchiveKinds == DatabaseFirstKinds \cup
    {"has won period", "never won period", "period belongs to", "undefeated vs",
     "never beaten", "period win streak", "no period win since",
     "would beat league record", "closing on league record", "tracking league worst",
     "would be personal best", "nearing personal best", "tracking personal worst"}

\* The candidates of a team's call that come from the historical tier.
fromArchive(entry) == SelectSeq(entry.stats.candidates, LAMBDA c : c.text.kind \in ArchiveKinds)

\* C1: the narratives buildNarratives returns never come from two candidates
\* that carry the same non-null category: of the candidates the selection pass
\* took for a entry, no two have the same category unless they have none.
C1_NoSharedCategory ==
    \A rt \in RunTeams :
        \A a, b \in 1..Len(rt.team.stats.selected) :
            (a # b /\ rt.team.stats.selected[a].cat # "")
                => rt.team.stats.selected[a].cat # rt.team.stats.selected[b].cat

\* A team with two candidates of the category "proj", one of them taken.
C1_Witness ==
    \E rt \in RunTeams :
        /\ Cardinality({i \in 1..Len(rt.team.stats.candidates) :
                            rt.team.stats.candidates[i].cat = "proj"}) >= 2
        /\ \E a \in 1..Len(rt.team.stats.selected) : rt.team.stats.selected[a].cat = "proj"
        /\ Len(rt.team.stats.streaks) = 2

\* C2: for a franchise with at least 2 days of history in the loaded store,
\* buildNarratives returns 1 or 2 narratives, whatever today's score, games
\* played, projection and archive content are.
C2_OneOrTwoNarratives ==
    \A rt \in RunTeams :
        ownDays(rt.r, rt.team.franchise) >= 2 => Len(rt.team.stats.streaks) \in {1, 2}

\* C3: with fewer than 2 days of history of a franchise, buildNarratives
\* returns the empty list for it.
C3_EmptyBelowTwoOwnDays ==
    \A rt \in RunTeams :
        ownDays(rt.r, rt.team.franchise) < 2 => rt.team.stats.streaks = <<>>

\* C3, as the code has it: with fewer than 2 days in the loaded store,
\* whichever franchises they hold, buildNarratives returns the empty list.
C3_EmptyBelowTwoLoadedDays ==
    \A rt \in RunTeams :
        Len(loadedDays(rt.r)) < 2 => rt.team.stats.streaks = <<>>

\* One day is loaded, today's, and a team that scored gets no narrative.
C3_Witness ==
    \E rt \in RunTeams :
        /\ Len(loadedDays(rt.r)) = 1
        /\ loadedDays(rt.r)[1].date = rt.r.todayScrape.date
        /\ rt.team.stats.dayPts > 0
        /\ rt.team.stats.streaks = <<>>

\* C4: in every analysis of N teams the dayRank values are a permutation of
\* 1..N and so are the seasonRank values, ties and two teams of one franchise
\* included.
C4_RanksArePermutations ==
    \A k \in 1..Len(run) :
        LET teams == run[k].analysis.teams
        IN  /\ {teams[i].dayRank : i \in 1..Len(teams)} = 1..Len(teams)
            /\ {teams[i].seasonRank : i \in 1..Len(teams)} = 1..Len(teams)

\* An analysis in which two teams are of one franchise, two teams have the
\* same dayPts and two teams have the same seasonPts.
C4_Witness ==
    \E k \in 1..Len(run) :
        LET teams == run[k].analysis.teams
        IN  \E i, j \in 1..Len(teams) :
                /\ i # j
                /\ teams[i].franchise = teams[j].franchise
                /\ teams[i].stats.dayPts = teams[j].stats.dayPts
                /\ teams[i].seasonPts = teams[j].seasonPts
                /\ teams[i].seasonPts > 0

\* The loaded days of a run without the one of today's date.
withoutToday(r) == SelectSeq(loadedDays(r), LAMBDA d : d.date # r.todayScrape.date)

todayLoaded(r) == \E i \in 1..Len(loadedDays(r)) : loadedDays(r)[i].date = r.todayScrape.date

\* C5: the seasonPts of a franchise computed with today's record in the loaded
\* history is the seasonPts computed with that date absent from the history
\* and the same record given as today's scrape.
C5_SeasonPtsIdempotent ==
    \A rt \in RunTeams :
        todayLoaded(rt.r)
            => rt.team.seasonPts
                   = seasonTotal(withoutToday(rt.r), rt.r.todayScrape, rt.team.franchise)

\* Today's record is in the loaded history with an earlier day, and a team
\* has points today and before.
C5_Witness ==
    \E rt \in RunTeams :
        /\ todayLoaded(rt.r)
        /\ withoutToday(rt.r) # <<>>
        /\ rt.team.stats.dayPts > 0
        /\ rt.team.seasonPts > rt.team.stats.dayPts

\* C7: when a query of the archive fails in buildNarratives, the call does
\* not throw, the local candidates are what they are otherwise, and the
\* historical tier gives the selection no candidate.
C7_NoArchiveCandidateOnFailure ==
    \A rt \in RunTeams :
        (rt.r.net.db = "failed" \/ rt.r.net.hist = "failed") => fromArchive(rt.team) = <<>>

\* The context of the call of buildNarratives for a team of a run.
narrativeContextOf(r, entry) ==
    narrativeContext(loadedDays(r), entry.franchise, r.todayScrape.period,
                     entry.stats.dayPts, entry.stats.gp, entry.stats.projection,
                     entry.stats.avg3d, entry.stats.ppg, r.todayScrape.teams)

\* The candidates of the historical tier that are pushed before the first
\* query of the Historical tab, for a entry of a run.
beforeHistoricalTab(r, entry) ==
    IF tooFewDays(loadedDays(r)) THEN <<>>
    ELSE milestoneCandidate(narrativeContextOf(r, entry),
                            resolved(r.net.db, ArchiveContent.records))
         \o seasonPaceCandidate(narrativeContextOf(r, entry),
                                resolved(r.net.db, ArchiveContent.records))

\* The archive of a sheet without a row.
EmptyArchive == [records |-> <<>>, matchups |-> <<>>]

\* C7, as the code has it: a failing query ends the historical tier where it
\* is.  When the Database tab fails, the first query fails: the analysis is
\* the one of an archive without a row, so the local candidates are the same
\* and the tier gives none.  When only the Historical tab fails, the tier
\* gives the candidates pushed before the first query of that tab, the
\* milestone and the season pace, and no other.
C7_ArchiveTierEndsAtFailure ==
    \A k \in 1..Len(run) :
        /\ run[k].net.db = "failed"
              => run[k].analysis
                     = buildNightlyAnalysis(run[k].files, run[k].todayScrape, EmptyArchive,
                                            [db |-> "records", hist |-> "records"])
        /\ (run[k].net.db # "failed" /\ run[k].net.hist = "failed")
              => \A i \in 1..Len(run[k].analysis.teams) :
                    fromArchive(run[k].analysis.teams[i])
                        = beforeHistoricalTab(run[k], run[k].analysis.teams[i])

\* The Historical tab fails, the Database tab answers: a team keeps a
\* candidate of the tier, and a team loses one that a query of the Database
\* tab after the failure would have given it.
C7_Witness ==
    /\ \E rt \in RunTeams :
          /\ rt.r.net = [db |-> "records", hist |-> "failed"]
          /\ fromArchive(rt.team) # <<>>
    /\ \E rt \in RunTeams :
          /\ rt.team.stats.projection # None
          /\ rt.team.stats.projection[1].projected > 0
          /\ leagueRecordCandidate(narrativeContextOf(rt.r, rt.team),
                                   ArchiveContent.records) # <<>>
          /\ fromArchive(rt.team) = <<>>

\* The candidates in another order of generation: the one at place f[i] comes
\* i-th.
permuted(candidates, f) == Array([i \in 1..Len(candidates) |-> candidates[f[i]]])

\* The orders of generation that leave candidates of equal score in the order
\* they had.
keepsTies(candidates, f) ==
    \A i, j \in 1..Len(candidates) :
        (i < j /\ candidates[f[i]].score = candidates[f[j]].score) => f[i] < f[j]

\* C12 (as claimed): generating the same candidates in any other order never
\* changes the narratives the selection pass takes, equal scores included.
C12_OrderNeverMatters ==
    \A rt \in RunTeams :
        \A f \in Permutations(1..Len(rt.team.stats.candidates)) :
            pickTop(permuted(rt.team.stats.candidates, f)) = rt.team.stats.selected

\* C12 (amended): generating the same candidates in another order leaves the
\* selection as it is whenever candidates of equal score keep their relative
\* order, and so whenever all scores differ.
C12_OrderMattersOnlyAmongTies ==
    \A rt \in RunTeams :
        \A f \in Permutations(1..Len(rt.team.stats.candidates)) :
            keepsTies(rt.team.stats.candidates, f)
                => pickTop(permuted(rt.team.stats.candidates, f)) = rt.team.stats.selected

\* A team with four candidates or more, two of them of equal score, that are
\* not generated in the order of their scores, and two taken.
C12_Witness ==
    \E rt \in RunTeams :
        /\ Len(rt.team.stats.candidates) >= 4
        /\ Len(rt.team.stats.selected) = 2
        /\ \E i, j \in 1..Len(rt.team.stats.candidates) :
              i < j /\ rt.team.stats.candidates[i].score = rt.team.stats.candidates[j].score
        /\ \E i, j \in 1..Len(rt.team.stats.candidates) :
              i < j /\ rt.team.stats.candidates[i].score < rt.team.stats.candidates[j].score

\* The candidate a walk over a sorted list takes second, after the first: the
\* first of the others that has no category or another one than the first.
secondPlace(sorted) ==
    LET free == {j \in 2..Len(sorted) :
                    sorted[j].cat = "" \/ sorted[j].cat # sorted[1].cat}
    IN  IF free = {} THEN 0 ELSE CHOOSE j \in free : \A k \in free : j <= k

\* The greedy selection of at most 2 over a list sorted by score.
greedy(sorted) ==
    IF sorted = <<>> THEN <<>>
    ELSE IF secondPlace(sorted) = 0 THEN <<sorted[1]>>
    ELSE <<sorted[1], sorted[secondPlace(sorted)]>>

\* C13: the selection pass is the greedy walk over the candidates in
\* descending score (a candidate is taken unless its category is present and
\* taken already, the walk stops at 2 taken); no candidate left out that has
\* no category or a category no taken candidate has scores strictly higher
\* than a taken one; and the first narrative is that of a candidate of
\* maximum score.
C13_GreedySelection ==
    \A rt \in RunTeams :
        LET cands    == rt.team.stats.candidates
            selected == rt.team.stats.selected
            taken    == {selected[a].text : a \in 1..Len(selected)}
            cats     == {selected[a].cat : a \in 1..Len(selected)} \ {""}
        IN  /\ selected = greedy(sortDescBy(cands, LAMBDA c : c.score))
            /\ Len(selected) <= 2
            /\ \A i \in 1..Len(cands) :
                  (cands[i].text \notin taken /\ cands[i].cat \notin cats)
                      => \A a \in 1..Len(selected) : cands[i].score <= selected[a].score
            /\ cands # <<>> =>
                  /\ rt.team.stats.streaks[1] = selected[1].text
                  /\ \A i \in 1..Len(cands) : cands[i].score <= selected[1].score

\* A team whose selection pass took its best candidate and passed over the
\* others for their category, and a team of the same run whose pass stopped
\* at 2 with candidates left.
C13_Witness ==
    \E rt, other \in RunTeams :
        /\ Len(rt.team.stats.selected) = 1
        /\ \E i \in 1..Len(rt.team.stats.candidates) :
              /\ rt.team.stats.candidates[i].cat = rt.team.stats.selected[1].cat
              /\ rt.team.stats.candidates[i].text # rt.team.stats.selected[1].text
        /\ Len(other.team.stats.selected) = 2
        /\ Len(other.team.stats.candidates) >= 3

\* The entry of the analysis for the i-th team of today's input list.
entryOf(r, i) ==
    r.analysis.teams[CHOOSE p \in 1..Len(r.analysis.teams) :
                         r.analysis.teams[p].stats.name = r.todayScrape.teams[i].name]

\* C14 (as claimed): two teams with equal dayPts get their dayRank in the
\* order of today's input list, and two teams with equal seasonPts get their
\* seasonRank in the order of today's input list.
C14_TiesByInputOrder ==
    \A k \in 1..Len(run) :
        \A i, j \in 1..Len(run[k].todayScrape.teams) :
            i < j =>
              /\ entryOf(run[k], i).stats.dayPts = entryOf(run[k], j).stats.dayPts
                    => entryOf(run[k], i).dayRank < entryOf(run[k], j).dayRank
              /\ entryOf(run[k], i).seasonPts = entryOf(run[k], j).seasonPts
                    => entryOf(run[k], i).seasonRank < entryOf(run[k], j).seasonRank

\* C14 (amended): two teams with equal dayPts get their dayRank in the order
\* of today's input list; two teams with equal seasonPts get their seasonRank
\* in the order of their dayRank.
C14_SeasonTiesByDayRank ==
    \A k \in 1..Len(run) :
        \A i, j \in 1..Len(run[k].todayScrape.teams) :
            /\ (i < j /\ entryOf(run[k], i).stats.dayPts = entryOf(run[k], j).stats.dayPts)
                  => entryOf(run[k], i).dayRank < entryOf(run[k], j).dayRank
            /\ (/\ entryOf(run[k], i).seasonPts = entryOf(run[k], j).seasonPts
                /\ entryOf(run[k], i).dayRank < entryOf(run[k], j).dayRank)
                  => entryOf(run[k], i).seasonRank < entryOf(run[k], j).seasonRank

\* Two teams with the same seasonPts of which the later of the input list
\* scored more today, and so ranks first of the two on both lists.
C14_Witness ==
    \E k \in 1..Len(run) :
        \E i, j \in 1..Len(run[k].todayScrape.teams) :
            /\ i < j
            /\ entryOf(run[k], i).seasonPts = entryOf(run[k], j).seasonPts
            /\ entryOf(run[k], i).stats.dayPts < entryOf(run[k], j).stats.dayPts
            /\ entryOf(run[k], j).dayRank < entryOf(run[k], i).dayRank
            /\ entryOf(run[k], j).seasonRank < entryOf(run[k], i).seasonRank

(***************************************************************************)
(* toFranchise over the names it can be given (SpecNames)                  *)
(***************************************************************************)
MaxLookups == 2

\* Names as the scraper or a stored file can hold them: none, a blank, a
\* single letter, a name of no franchise, a full name, a short name in capitals
\* between blanks, a cut name, a name with the words of two franchises, a name
\* with a keyword only, and an abbreviation.
Names == {"", " ", "a", "Unknown Team 3", "Brian's Endless Winter", " PWN ",
          "Endless Win", "gaucho pwn", "Winter Soldiers", "JGC"}

NamesInit ==
    /\ lookups = <<>>
    /\ tasks = <<>>
    /\ pipeline = <<>>
    /\ dateScrape = backfillStart
    /\ NightlyIdle
    /\ FetchIdle
    /\ allDays = <<>>
    /\ query = None

\* One call of toFranchise.
lookup(name) ==
    /\ Len(lookups) < MaxLookups
    /\ lookups' = Append(lookups, [name |-> name, franchise |-> toFranchise(name)])
    /\ UNCHANGED <<statsVars, fetchVars, nightlyVars, tasks, pipeline, dateScrape>>

NamesNext == \E name \in Names : lookup(name)

SpecNames == NamesInit /\ [][NamesNext]_vars

\* The entries of a table whose key passes Test, by place.
hits(table, Test(_)) == {i \in 1..Len(table) : Test(Spelling[table[i][1]])}

\* The value of the first of the entries at the places S.
firstOf(table, S) == table[CHOOSE i \in S : \A j \in S : i <= j][2]

\* C15 (as claimed): a name that is no key of FRANCHISE_MAP once normalized
\* and contains no key and no keyword resolves to null; and the result is the
\* first exact match, else the first substring match in either direction,
\* else the first keyword match.
C15_FailsClosed ==
    \A k \in 1..Len(lookups) :
        LET normalized == trim(toLowerCase(Spelling[lookups[k].name]))
            exact   == hits(FRANCHISE_MAP, LAMBDA key : key = normalized)
            within  == hits(FRANCHISE_MAP, LAMBDA key : includes(normalized, key))
            partial == hits(FRANCHISE_MAP, LAMBDA key : includes(normalized, key)
                                                        \/ includes(key, normalized))
            kws     == hits(keywords, LAMBDA kw : includes(normalized, kw))
        IN  /\ (exact = {} /\ within = {} /\ kws = {}) => lookups[k].franchise = ""
            /\ lookups[k].name # "" =>
                  lookups[k].franchise =
                      IF exact # {} THEN firstOf(FRANCHISE_MAP, exact)
                      ELSE IF partial # {} THEN firstOf(FRANCHISE_MAP, partial)
                      ELSE IF kws # {} THEN firstOf(keywords, kws)
                      ELSE ""

(***************************************************************************)
(* The daily store as backfill.js fills it and as the engine reads it       *)
(* (SpecStore)                                                             *)
(***************************************************************************)
MaxFiles == 3

\* What backfill's scrapeDate finds for a date: two teams that played, two
\* teams on a day without games, or no data.
BackfillTeams == {
    <<scrapedTeam("Jason's Gaucho Chudpumpers", 125, 3), scrapedTeam("Cmack's PWN", 100, 2)>>,
    <<scrapedTeam("Jason's Gaucho Chudpumpers", 0, 0), scrapedTeam("Cmack's PWN", 0, 0)>>,
    <<>> }

\* The files of data/daily that are not a record of a scoring period: a
\* file whose text is cut short, and a record whose period is null.
foreignFiles(date) == {
    [date |-> date, text |-> "cut short"],
    dailyRecord([period |-> 0,
                 teams  |-> <<scrapedTeam("Jason's Gaucho Chudpumpers", 125, 3)>>], date) }

\* The date of the next file: files come in the order of their dates.
nextFileDates ==
    IF store = <<>> THEN {FirstNight}
    ELSE {d \in {store[Len(store)].date + 1} : getPeriodForDate(d) # None}

StoreInit ==
    /\ NightlyIdle
    /\ RestIdle
    /\ FetchIdle
    /\ allDays = <<>>
    /\ query = None

\* backfill.js: saveDailyFile(data) for a date with teams, and
\* saveDailyFile({ date, period, teams: [] }) for a date without data.
saveDailyFile(date, teams) ==
    /\ Len(store) < MaxFiles
    /\ store' = writeFile(store, dailyRecord([period |-> getPeriodForDate(date)[1],
                                              teams  |-> teams], date))
    /\ UNCHANGED <<statsVars, fetchVars, run, restVars>>

\* A file of data/daily the engine did not write.
foreignFile(file) ==
    /\ Len(store) < MaxFiles
    /\ store' = writeFile(store, file)
    /\ UNCHANGED <<statsVars, fetchVars, run, restVars>>

\* loadAllDailyScores(), with the files it read.
load ==
    /\ allDays' = loadAllDailyScores(store)
    /\ query' = Some([files |-> store])
    /\ UNCHANGED <<fetchVars, nightlyVars, restVars>>

\* buildNightlyAnalysis(todayScrape) for a scrape without teams.
analyseNoTeams(date, net) ==
    /\ \E todayScrape \in {[date |-> date, period |-> getPeriodForDate(date)[1], teams |-> <<>>]} :
          run' = Some([todayScrape |-> todayScrape,
                       net         |-> net,
                       files       |-> store,
                       analysis    |-> buildNightlyAnalysis(store, todayScrape,
                                                            ArchiveContent, net)])
    /\ UNCHANGED <<store, statsVars, fetchVars, restVars>>

StoreNext ==
    \/ \E date \in nextFileDates, teams \in BackfillTeams : saveDailyFile(date, teams)
    \/ \E date \in nextFileDates : \E file \in foreignFiles(date) : foreignFile(file)
    \/ load
    \/ \E date \in {FirstNight, FirstNight + 2}, net \in NetOutcomes : analyseNoTeams(date, net)

SpecStore == StoreInit /\ [][StoreNext]_vars

\* C16: buildNightlyAnalysis given an empty team list returns an analysis
\* whose teams and seasonRanked lists are both empty, whatever the store
\* holds.
C16_EmptyTeamList ==
    \A k \in 1..Len(run) :
        run[k].todayScrape.teams = <<>> =>
            /\ run[k].analysis.teams = <<>>
            /\ run[k].analysis.seasonRanked = <<>>
            /\ run[k].analysis.totalSeasonDays <= Len(run[k].files)

\* An analysis without teams over a store of two loaded days and a file that
\* does not parse.
C16_Witness ==
    \E k \in 1..Len(run) :
        /\ run[k].todayScrape.teams = <<>>
        /\ run[k].analysis.teams = <<>>
        /\ run[k].analysis.totalSeasonDays = 2
        /\ \E i \in 1..Len(run[k].files) : ~parses(run[k].files[i])

\* The files a load keeps, by place: those that parse and have a period, a
\* team and a sum of dayPts that is not 0.
qualifying(files) ==
    {i \in 1..Len(files) :
        /\ "text" \notin DOMAIN files[i]
        /\ files[i].period # 0
        /\ files[i].teams # <<>>
        /\ sumSeq([t \in 1..Len(files[i].teams) |-> files[i].teams[t].dayPts]) # 0}

\* A loaded record is the stored one, but for the franchise of its teams.
sameRecord(day, file) ==
    /\ day.date = file.date
    /\ day.period = file.period
    /\ Len(day.teams) = Len(file.teams)
    /\ \A t \in 1..Len(file.teams) :
          [day.teams[t] EXCEPT !.franchise = ""] = [file.teams[t] EXCEPT !.franchise = ""]

\* C18: loadAllDailyScores returns, in ascending date order, exactly the
\* stored records that parse, have a period, have a team and have a non-zero
\* total of dayPts; a file that does not parse, a record without a period and
\* a record without a point are each left out and no other record with them.
C18_LoadKeepsQualifying ==
    query # None =>
        LET files == query[1].files
            Q     == qualifying(files)
        IN  /\ Len(allDays) = Cardinality(Q)
            /\ \A a, b \in 1..Len(allDays) : a < b => allDays[a].date < allDays[b].date
            /\ \A i \in Q : \E a \in 1..Len(allDays) : sameRecord(allDays[a], files[i])

\* A load of three files, the first of which does not parse and another of
\* which has no period or no point, that returns one record.
C18_Witness ==
    /\ query # None
    /\ Len(query[1].files) = 3
    /\ ~parses(query[1].files[1])
    /\ \E i \in 2..3 : parses(query[1].files[i])
                          /\ (query[1].files[i].period = 0
                              \/ (query[1].files[i].teams # <<>>
                                  /\ totalPts(query[1].files[i].teams) = 0))
    /\ Len(allDays) = 1

(***************************************************************************)
(* analyze.js: buildNightlyAnalysis as its per-team callbacks run          *)
(* (SpecTasks)                                                             *)
(***************************************************************************)
\* What the store holds before an analysis: nights of two teams, one on
\* which they score the same and one on which the second listed scores more.
TaskTeams == {
    <<scrapedTeam("Jason's Gaucho Chudpumpers", 125, 3), scrapedTeam("Cmack's PWN", 125, 3)>>,
    <<scrapedTeam("Cmack's PWN", 100, 2), scrapedTeam("Jason's Gaucho Chudpumpers", 125, 3)>> }

\* The promise a query of a tab awaits: the memoised one, or a new one.
awaited(t, tab) == IF t.cache[tab] # 0 THEN t.cache[tab] ELSE Len(t.promises) + 1

\* fetchHistoricalData() / fetchMatchupHistory() as a query calls it: the
\* memoised promise is returned, or a request is issued and its promise
\* memoised.
called(t, tab) ==
    IF t.cache[tab] # 0 THEN t
    ELSE [t EXCEPT !.promises = Append(@, [tab |-> tab, state |-> "pending"]),
                   !.cache[tab] = Len(t.promises) + 1]

\* The request of a promise is answered: with the rows; with a response that
\* is not OK, for which the promise resolves to [] and the memo is reset; or
\* not at all, for which the promise rejects and stays memoised.
settled(t, p) ==
    LET tab     == t.promises[p].tab
        outcome == t.net[tab]
    IN  IF outcome = "records" THEN [t EXCEPT !.promises[p].state = "records"]
        ELSE IF outcome = "notOk"
             THEN [t EXCEPT !.promises[p].state = "empty", !.cache[tab] = 0]
        ELSE [t EXCEPT !.promises[p].state = "rejected"]

\* The values the callback of a team computes before it calls buildNarratives,
\* and the ones buildNarratives computes before its first query.
taskContext(days, todayScrape, t) ==
    only({ narrativeContext(days, franchise, todayScrape.period, t.dayPts, t.gp,
                            projectPeriodFinish(days, franchise, todayScrape.period),
                            rollingAvgPPG(days, franchise, 3), seasonPPG(days, franchise),
                            todayScrape.teams) :
           franchise \in {teamFranchise(t)} })

\* The object the callback of a team returns, for the narratives it awaited.
teamStatOf(days, todayScrape, t, narratives) ==
    only({ [franchise  |-> franchise,
            name       |-> t.name,
            dayPts     |-> t.dayPts,
            projPts    |-> t.projPts,
            gp         |-> t.gp,
            ppg        |-> seasonPPG(days, franchise),
            avg3d      |-> rollingAvgPPG(days, franchise, 3),
            avg7d      |-> rollingAvgPPG(days, franchise, 7),
            vsProj     |-> vsProj(t),
            streaks    |-> narratives.texts,
            candidates |-> narratives.candidates,
            selected   |-> narratives.selected,
            projection |-> projection,
            periodPts  |-> IF projection # None THEN projection[1].periodPts ELSE 0] :
           franchise \in {teamFranchise(t)},
           projection \in {projectPeriodFinish(days, teamFranchise(t), todayScrape.period)} })

\* todayScrape.teams.map(async t => ...): every callback runs, in the order
\* of the list, up to its first await.  With fewer than two days
\* buildNarratives returns [] at once and the callbacks end in the order of
\* the list; otherwise each has pushed its local candidates and awaits the
\* Database tab for getCareerTotalPoints, the first of them having issued the
\* request.
started(days, todayScrape, net) ==
    LET n == Len(todayScrape.teams)
    IN  IF tooFewDays(days) \/ n = 0
        THEN [today    |-> todayScrape,
              net      |-> net,
              cache    |-> [db |-> 0, hist |-> 0],
              promises |-> <<>>,
              team     |-> Array([i \in 1..n |->
                              [pc |-> "done", on |-> 0, cands |-> <<>>,
                               out |-> Some([candidates |-> <<>>, selected |-> <<>>,
                                             texts |-> <<>>])]]),
              order    |-> Array([i \in 1..n |-> i]),
              analysis |-> None]
        ELSE [today    |-> todayScrape,
              net      |-> net,
              cache    |-> [db |-> 1, hist |-> 0],
              promises |-> <<[tab |-> "db", state |-> "pending"]>>,
              team     |-> Array([i \in 1..n |->
                              [pc |-> "career", on |-> 1,
                               cands |-> localCandidates(
                                             taskContext(days, todayScrape, todayScrape.teams[i])),
                               out |-> None]]),
              order    |-> <<>>,
              analysis |-> None]

\* The callback of team i goes on after the promise it awaited has settled.
\* A rejection is caught by the try around the historical tier, which ends
\* there.  Otherwise the detectors of the stage push their candidates and the
\* callback awaits the next query: the Historical tab for getPeriodDominance,
\* then, with a projection, the Database tab for getLeaguePeriodRecord.  It
\* ends with the selection pass over its candidates.
resumed(days, t, i) ==
    LET me   == t.team[i]
        st   == t.promises[me.on].state
        cx   == taskContext(days, t.today, t.today.teams[i])
        records  == IF st = "records" THEN ArchiveContent.records ELSE <<>>
        matchups == IF st = "records" THEN ArchiveContent.matchups ELSE <<>>
        projected == cx.projection # None /\ cx.projection[1].projected > 0
        ends(cands) ==
            [t EXCEPT !.team[i] = [pc |-> "done", on |-> 0, cands |-> cands,
                                   out |-> Some(narrativesOf(cx, cands))],
                      !.order = Append(@, i)]
        awaits(cands, pc, tab) ==
            [called(t, tab) EXCEPT !.team[i] = [pc |-> pc, on |-> awaited(t, tab),
                                                cands |-> cands, out |-> None]]
    IN  IF st = "rejected" THEN ends(me.cands)
        ELSE IF me.pc = "career"
             THEN awaits(me.cands \o milestoneCandidate(cx, records)
                                  \o seasonPaceCandidate(cx, records),
                         "dominance", "hist")
        ELSE IF me.pc = "dominance"
             THEN IF projected
                  THEN awaits(me.cands \o dominanceCandidate(cx, matchups)
                                       \o h2hCandidate(cx, matchups)
                                       \o matchupStreakCandidate(cx, matchups),
                              "records", "db")
                  ELSE ends(me.cands \o dominanceCandidate(cx, matchups)
                                     \o h2hCandidate(cx, matchups)
                                     \o matchupStreakCandidate(cx, matchups))
        ELSE ends(me.cands \o leagueRecordCandidate(cx, records)
                           \o leagueWorstCandidate(cx, records)
                           \o personalBestCandidate(cx, records)
                           \o personalWorstCandidate(cx, records))

\* A reading in which the results come in the order the callbacks ended.
promiseAll_InCompletionOrder(days, t) ==
    Array([k \in 1..Len(t.order) |->
              teamStatOf(days, t.today, t.today.teams[t.order[k]], t.team[t.order[k]].out[1])])

\* await Promise.all(...): the results, in the order of the list.
promiseAll(days, t) ==
    Array([i \in 1..Len(t.team) |->
              teamStatOf(days, t.today, t.today.teams[i], t.team[i].out[1])])

\* The callbacks and the promises of the analysis under way.
Callbacks == IF tasks = <<>> THEN {} ELSE 1..Len(tasks[1].team)

Promises == IF tasks = <<>> THEN {} ELSE 1..Len(tasks[1].promises)

TasksInit ==
    /\ NightlyIdle
    /\ RestIdle
    /\ FetchIdle
    /\ allDays = <<>>
    /\ query = None

\* A night is stored before any analysis runs.
storeNight(date, teams) ==
    /\ tasks = <<>>
    /\ saveDailyFile(date, teams)

\* buildNightlyAnalysis(todayScrape) for the last stored night, up to the
\* first await of each callback.
begin(net) ==
    /\ tasks = <<>>
    /\ store # <<>>
    /\ allDays' = loadAllDailyScores(store)
    /\ tasks' = <<started(allDays', store[Len(store)], net)>>
    /\ UNCHANGED <<query, fetchVars, nightlyVars, lookups, pipeline, dateScrape>>

\* The sheet answers a request.
settle(p) ==
    /\ p \in Promises
    /\ tasks[1].promises[p].state = "pending"
    /\ tasks' = <<settled(tasks[1], p)>>
    /\ UNCHANGED <<statsVars, fetchVars, nightlyVars, lookups, pipeline, dateScrape>>

\* The callback of a team goes on.
resume(i) ==
    /\ i \in Callbacks
    /\ tasks[1].team[i].pc # "done"
    /\ tasks[1].promises[tasks[1].team[i].on].state # "pending"
    /\ tasks' = <<resumed(allDays, tasks[1], i)>>
    /\ UNCHANGED <<statsVars, fetchVars, nightlyVars, lookups, pipeline, dateScrape>>

\* Every callback has ended: buildNightlyAnalysis ranks the results and
\* returns.
gather ==
    /\ tasks # <<>>
    /\ tasks[1].analysis = None
    /\ \A i \in Callbacks : tasks[1].team[i].pc = "done"
    /\ tasks' = <<[tasks[1] EXCEPT !.analysis =
                       Some(analysisOfStats(allDays, tasks[1].today,
                                            promiseAll(allDays, tasks[1])))]>>
    /\ UNCHANGED <<statsVars, fetchVars, nightlyVars, lookups, pipeline, dateScrape>>

TasksNext ==
    \/ \E date \in nextFileDates, teams \in TaskTeams : storeNight(date, teams)
    \/ \E net \in NetOutcomes : begin(net)
    \/ \E p \in Promises : settle(p)
    \/ \E i \in Callbacks : resume(i)
    \/ gather

SpecTasks == TasksInit /\ [][TasksNext]_vars

(***************************************************************************)
(* Claims about the per-team callbacks (SpecTasks)                         *)
(***************************************************************************)
\* C17: the per-team computations of buildNightlyAnalysis are independent.
\* No callback changes the loaded history or today's team list, and for every
\* interleaving of the callbacks and every order in which they end, the
\* analysis returned is the one of evaluating the teams one after the other
\* in the order of the list.
C17_CallbacksIndependent ==
    tasks # <<>> =>
        /\ allDays = loadAllDailyScores(store)
        /\ tasks[1].today = store[Len(store)]
        /\ tasks[1].analysis # None
              => tasks[1].analysis[1]
                     = buildNightlyAnalysis(store, tasks[1].today, ArchiveContent, tasks[1].net)

\* An analysis returned after the second callback of the list ended first,
\* for two teams that score the same tonight, with more than one request
\* made and a candidate of the historical tier found.
C17_Witness ==
    /\ tasks # <<>>
    /\ tasks[1].analysis # None
    /\ tasks[1].order = <<2, 1>>
    /\ tasks[1].today.teams[1].dayPts = tasks[1].today.teams[2].dayPts
    /\ Len(tasks[1].promises) >= 2
    /\ \E i \in Callbacks :
          Len(tasks[1].team[i].cands)
              > Len(localCandidates(taskContext(allDays, tasks[1].today,
                                                tasks[1].today.teams[i])))

(***************************************************************************)
(* index.js and test-post.js: a run of the pipeline (SpecPipeline)         *)
(***************************************************************************)
MaxCards == 2

\* The environment variables a run reads, each set or not.
Envs == [fantrax : BOOLEAN, apiKey : BOOLEAN, webhookUrl : BOOLEAN,
         botToken : BOOLEAN, channelId : BOOLEAN]

\* What a run finds for its night: nothing (the scrape throws, or the daily
\* file is missing), a night without games, or a night with games.
Nights == {"none", "noGames", "games"}

\* A call to Slack that went through; rank is the one of the card uploaded,
\* 0 for a message.
slackCall(via, what) == [via |-> via, what |-> what, rank |-> 0]

\* What generateCardStrips can return: up to MaxCards cards, each with the day
\* rank of its team, in any order; exists says whether the file is still
\* there when it is to be uploaded.
CardLists ==
    UNION {[1..n -> [rank : 1..MaxCards, exists : BOOLEAN]] : n \in 0..MaxCards}

\* The upload of a card.
cardCall(card) == [via |-> "bot", what |-> "card", rank |-> card.rank]

\* The awaited calls to Slack of a function, of which the first `good` go
\* through: a call that rejects is thrown on and the later ones are not made.
sent(calls, good) ==
    [posts |-> SubSeq(calls, 1, IF good < Len(calls) THEN good ELSE Len(calls)),
     threw |-> good < Len(calls)]

\* A reading in which the cards are uploaded in the order of cardPaths.
postCardStrips_AsGiven(botToken, channelId, cardPaths, footerText, good) ==
    IF ~botToken \/ ~channelId THEN [posts |-> <<>>, threw |-> TRUE]
    ELSE LET there == SelectSeq(cardPaths, LAMBDA c : c.exists)
         IN  sent(<<slackCall("bot", "header")>>
                      \o Array([i \in 1..Len(there) |-> cardCall(there[i])])
                      \o (IF footerText THEN <<slackCall("bot", "footer")>> ELSE <<>>),
                  good)

\* slack.js: postCardStrips({ botToken, channelId, headerText, cardPaths,
\* footerText }): the header; then, over a copy of cardPaths sorted by rank,
\* each card whose file exists, one awaited upload after the other; then the
\* footer if footerText is not empty.
postCardStrips(botToken, channelId, cardPaths, footerText, good) ==
    IF ~botToken \/ ~channelId THEN [posts |-> <<>>, threw |-> TRUE]
    ELSE LET sorted == sortAscBy(cardPaths, LAMBDA c : c.rank)
             there  == SelectSeq(sorted, LAMBDA c : c.exists)
         IN  sent(<<slackCall("bot", "header")>>
                      \o Array([i \in 1..Len(there) |-> cardCall(there[i])])
                      \o (IF footerText THEN <<slackCall("bot", "footer")>> ELSE <<>>),
                  good)

\* slack.js: postUpdate({ webhookUrl, botToken, channelId, commentary,
\* scoreboardPath }); scoreboardPath stands for: given and the file exists.
postUpdate(webhookUrl, botToken, channelId, scoreboardPath, good) ==
    IF botToken /\ channelId /\ scoreboardPath
    THEN sent(<<slackCall("bot", "scoreboard")>>, good)
    ELSE IF webhookUrl THEN sent(<<slackCall("webhook", "text")>>, good)
    ELSE [posts |-> <<>>, threw |-> TRUE]

\* index.js line 132: the declaration of commentary is commented out, and no
\* other binding of that name is in scope of main.
commentaryDeclared == FALSE

dryRunReturns_Never(r) == FALSE

\* if (dryRun) { ...; return; }
dryRunReturns(r) == r.dryRun

ended(r, exit) == [r EXCEPT !.pc = "ended", !.exit = exit]

\* main() of either script up to its first await: the checks of the
\* arguments, of the environment and of the period.
launched(program, dryRun, env, inPeriod) ==
    LET r == [program |-> program, dryRun |-> dryRun, env |-> env, pc |-> "scrape",
              exit |-> "none", cardPaths |-> <<>>, scoreboardPath |-> FALSE,
              posting |-> FALSE, footerText |-> FALSE, good |-> 0, posts |-> <<>>]
    IN  IF program = "index"
        THEN IF ~env.fantrax THEN ended(r, "error")
             ELSE IF ~inPeriod THEN ended(r, "skipped")
             ELSE IF ~dryRun /\ ~env.apiKey THEN ended(r, "error")
             ELSE IF ~dryRun /\ ~env.webhookUrl /\ ~env.botToken THEN ended(r, "error")
             ELSE r
        ELSE IF ~inPeriod THEN ended(r, "error") ELSE r

PipelineInit ==
    /\ NightlyIdle
    /\ RestIdle
    /\ FetchIdle
    /\ allDays = <<>>
    /\ query = None

pipelineRest == <<statsVars, fetchVars, nightlyVars, lookups, tasks, dateScrape>>

launch(program, dryRun, env, inPeriod) ==
    /\ pipeline = <<>>
    /\ pipeline' = <<launched(program, dryRun, env, inPeriod)>>
    /\ UNCHANGED pipelineRest

\* index.js steps 1 to 3: the scrape, the daily file, the analysis and the
\* test of the games played; test-post.js: the daily file of the date and the
\* test of its points.
night(found) ==
    /\ pipeline # <<>>
    /\ pipeline[1].pc = "scrape"
    /\ pipeline' = <<IF found = "games" THEN [pipeline[1] EXCEPT !.pc = "cards"]
                     ELSE IF found = "noGames" /\ pipeline[1].program = "index"
                          THEN ended(pipeline[1], "skipped")
                     ELSE ended(pipeline[1], "error")>>
    /\ UNCHANGED pipelineRest

\* generateCardStrips: index.js goes on without images when it throws, and
\* ends there in a dry run; test-post.js goes on to the combined scoreboard.
cards(ok, made) ==
    /\ pipeline # <<>>
    /\ pipeline[1].pc = "cards"
    /\ ok \/ made = <<>>
    /\ pipeline' =
          <<LET r == [pipeline[1] EXCEPT !.cardPaths = IF ok THEN made ELSE <<>>]
            IN  IF r.program = "index"
                THEN IF dryRunReturns(r) THEN ended(r, "completed")
                     ELSE IF r.env.botToken /\ r.env.channelId /\ Len(r.cardPaths) > 0
                          THEN [r EXCEPT !.pc = "post", !.posting = TRUE]
                     ELSE [r EXCEPT !.pc = "fallback", !.posting = TRUE]
                ELSE IF ~ok THEN ended(r, "error")
                ELSE [r EXCEPT !.pc = "scoreboard"]>>
    /\ UNCHANGED pipelineRest

\* test-post.js: generateScoreboard, the dry-run return and the check of the
\* bot token and the channel.
scoreboard(ok) ==
    /\ pipeline # <<>>
    /\ pipeline[1].pc = "scoreboard"
    /\ pipeline' =
          <<LET r == [pipeline[1] EXCEPT !.scoreboardPath = ok]
            IN  IF ~ok THEN ended(r, "error")
                ELSE IF dryRunReturns(r) THEN ended(r, "completed")
                ELSE IF ~r.env.botToken \/ ~r.env.channelId THEN ended(r, "error")
                ELSE [r EXCEPT !.pc = "post", !.posting = TRUE]>>
    /\ UNCHANGED pipelineRest

\* await postCardStrips(...): index.js gives a footer when the analysis ranks
\* two teams or more, test-post.js gives none.
post(footer, good) ==
    /\ pipeline # <<>>
    /\ pipeline[1].pc = "post"
    /\ pipeline' =
          <<LET r == pipeline[1]
                u == postCardStrips(r.env.botToken, r.env.channelId, r.cardPaths,
                                    footer /\ r.program = "index", good)
            IN  [ended(r, IF u.threw THEN "error" ELSE "completed")
                    EXCEPT !.posts = u.posts, !.good = good,
                           !.footerText = footer /\ r.program = "index"]>>
    /\ UNCHANGED pipelineRest

\* index.js, the else branch of step 6: generateScoreboard in its own try,
\* then postUpdate({ ..., commentary, scoreboardPath }), whose argument reads
\* commentary; what throws there is caught by the try of main.
fallback(ok, good) ==
    /\ pipeline # <<>>
    /\ pipeline[1].pc = "fallback"
    /\ pipeline' =
          <<LET r == [pipeline[1] EXCEPT !.scoreboardPath = ok, !.good = good]
                u == postUpdate(r.env.webhookUrl, r.env.botToken, r.env.channelId,
                                r.scoreboardPath, good)
            IN  IF ~commentaryDeclared THEN ended(r, "error")
                ELSE [ended(r, IF u.threw THEN "error" ELSE "completed")
                         EXCEPT !.posts = u.posts]>>
    /\ UNCHANGED pipelineRest

PipelineNext ==
    \/ \E program \in {"index", "test-post"}, dryRun \in BOOLEAN, env \in Envs,
          inPeriod \in BOOLEAN : launch(program, dryRun, env, inPeriod)
    \/ \E found \in Nights : night(found)
    \/ \E ok \in BOOLEAN, made \in CardLists : cards(ok, made)
    \/ \E ok \in BOOLEAN : scoreboard(ok)
    \/ \E footer \in BOOLEAN, good \in 0..MaxCards + 2 : post(footer, good)
    \/ \E ok \in BOOLEAN, good \in 0..1 : fallback(ok, good)

SpecPipeline == PipelineInit /\ [][PipelineNext]_vars

(***************************************************************************)
(* Claims about a run of the pipeline (SpecPipeline)                       *)
(***************************************************************************)
\* C19: in a run started with --dry-run nothing is ever posted to Slack:
\* the run never reaches the posting step of either script, whatever
\* credentials are set.
C19_DryRunNeverPosts ==
    pipeline # <<>> /\ pipeline[1].dryRun
        => /\ pipeline[1].posts = <<>>
           /\ ~pipeline[1].posting
           /\ pipeline[1].pc \notin {"post", "fallback"}

\* A dry run of index.js with every credential set and cards generated that
\* has returned.
C19_Witness ==
    /\ pipeline # <<>>
    /\ pipeline[1].program = "index"
    /\ pipeline[1].dryRun
    /\ pipeline[1].env = [fantrax |-> TRUE, apiKey |-> TRUE, webhookUrl |-> TRUE,
                          botToken |-> TRUE, channelId |-> TRUE]
    /\ Len(pipeline[1].cardPaths) > 0
    /\ pipeline[1].exit = "completed"

\* C20: a live run of index.js with the webhook only, which reaches the
\* posting step with Slack taking the call, posts the text through the
\* webhook and ends completed, not in error.
C20_WebhookOnlyCompletes ==
    pipeline # <<>> =>
        LET r == pipeline[1]
        IN  (/\ r.program = "index"
             /\ ~r.dryRun
             /\ r.env.webhookUrl /\ ~r.env.botToken /\ ~r.env.channelId
             /\ r.posting
             /\ r.pc = "ended"
             /\ r.good >= 1)
                => /\ r.exit = "completed"
                   /\ r.posts = <<slackCall("webhook", "text")>>

\* The places of the posts of a kind in a run's posts.
placesOf(r, what) == {i \in 1..Len(r.posts) : r.posts[i].what = what}

\* The places of cardPaths whose file exists.
cardsThere(r) == {i \in 1..Len(r.cardPaths) : r.cardPaths[i].exists}

\* C21: postCardStrips posts in a fixed order.  The header is the first call
\* and is made once; the cards that follow are uploaded in ascending rank
\* order whatever the order of cardPaths, each card of cardPaths whose file
\* exists once when the function returns; the footer comes only after all of
\* them, only when footerText is not empty, and always then.
C21_HeaderCardsFooter ==
    pipeline # <<>> /\ pipeline[1].posts # <<>> =>
        LET r == pipeline[1]
            n == Len(r.posts)
        IN  /\ placesOf(r, "header") = {1}
            /\ \A i, j \in placesOf(r, "card") : i < j => r.posts[i].rank <= r.posts[j].rank
            /\ \A k \in 1..MaxCards :
                  Cardinality({i \in placesOf(r, "card") : r.posts[i].rank = k})
                      <= Cardinality({i \in cardsThere(r) : r.cardPaths[i].rank = k})
            /\ \A i \in placesOf(r, "footer") :
                  /\ i = n
                  /\ r.footerText
                  /\ Cardinality(placesOf(r, "card")) = Cardinality(cardsThere(r))
            /\ r.exit = "completed"
                  => /\ Cardinality(placesOf(r, "card")) = Cardinality(cardsThere(r))
                     /\ r.footerText => placesOf(r, "footer") = {n}
            /\ placesOf(r, "header") \cup placesOf(r, "card") \cup placesOf(r, "footer") = 1..n

\* A run that posted the header, two cards given with the second-ranked
\* first, and the footer.
C21_Witness ==
    /\ pipeline # <<>>
    /\ pipeline[1].exit = "completed"
    /\ Len(pipeline[1].cardPaths) = 2
    /\ pipeline[1].cardPaths[1].rank > pipeline[1].cardPaths[2].rank
    /\ cardsThere(pipeline[1]) = {1, 2}
    /\ pipeline[1].footerText
    /\ Len(pipeline[1].posts) = 4

(***************************************************************************)
(* buildNarratives over longer histories, larger days and other archives   *)
(* (SpecDetect)                                                            *)
(***************************************************************************)
MaxHistory == 31
MaxShort == 3

\* The days of the histories, as scraped.  JGC is first of two, second of
\* two, fourth of four, last of eight, or first of eight by far.
DayFirst == <<scrapedTeam("Jason's Gaucho Chudpumpers", 125, 3), scrapedTeam("Cmack's PWN", 100, 2)>>

DaySecond == <<scrapedTeam("Cmack's PWN", 100, 2), scrapedTeam("Jason's Gaucho Chudpumpers", 25, 1)>>

DayFourth ==
    <<scrapedTeam("Cmack's PWN", 100, 2), scrapedTeam("Brian's Endless Winter", 75, 2),
      scrapedTeam("meatspinners", 50, 1), scrapedTeam("Jason's Gaucho Chudpumpers", 10, 1)>>

eightTeams(jgc, others) ==
    <<scrapedTeam("Cmack's PWN", others + 7, 1), scrapedTeam("Brian's Endless Winter", others + 6, 1),
      scrapedTeam("meatspinners", others + 5, 1), scrapedTeam("downtown demons", others + 4, 1),
      scrapedTeam("mid tier perpetual projects", others + 3, 1),
      scrapedTeam("Unknown Team 3", others + 2, 1), scrapedTeam("Unknown Team 4", others + 1, 1),
      scrapedTeam("Jason's Gaucho Chudpumpers", jgc, 1)>>

StreakDays == {DayFirst, DaySecond, DayFourth}

DayShapes == StreakDays \cup {eightTeams(10, 100), eightTeams(900, 0)}

\* The sheet with one more row, of a season and a period outside the ones the
\* histories reach, that brings the career total of JGC to a given value.
withCareerRow(fpts) ==
    [ArchiveContent EXCEPT !.records =
        <<[season |-> 2012, period |-> 9, teams |-> <<archiveTeam("JGC", fpts)>>]>> \o @]

DetectArchives == {ArchiveContent, withCareerRow(7600), withCareerRow(7200), withCareerRow(6700)}

DetectInit ==
    /\ allDays = <<>>
    /\ query = None
    /\ FetchIdle
    /\ NightlyIdle
    /\ RestIdle

\* One more day of the history, stored and loaded.  The first days are of any
\* shape; from then on the history goes on with days like its last one.
addDay(teams) ==
    /\ Len(allDays) < MaxHistory
    /\ Len(allDays) >= MaxShort
          => /\ teams \in StreakDays
             /\ \E date \in {allDays[Len(allDays)].date} :
                   dailyRecord([period |-> getPeriodForDate(date)[1], teams |-> teams],
                               date).teams = allDays[Len(allDays)].teams
    /\ \E date \in {Len(allDays) + 1} :
          allDays' = allDays \o loadAllDailyScores(
                         <<dailyRecord([period |-> getPeriodForDate(date)[1], teams |-> teams],
                                       date)>>)
    /\ query' = None
    /\ UNCHANGED <<fetchVars, nightlyVars, restVars>>

\* The callback of buildNightlyAnalysis for JGC on the last day of the
\* history, once a night, with the sheet answering both tabs.
narrate(archive) ==
    /\ allDays # <<>>
    /\ query = None
    /\ \E today \in {allDays[Len(allDays)]} :
          \E i \in {i \in 1..Len(today.teams) : teamFranchise(today.teams[i]) = "JGC"} :
             query' = Some([archive |-> archive,
                            stat    |-> teamStat(allDays, today, today.teams[i], archive,
                                                 [db |-> "records", hist |-> "records"])])
    /\ UNCHANGED allDays
    /\ UNCHANGED <<fetchVars, nightlyVars, restVars>>

DetectNext ==
    \/ \E teams \in DayShapes : addDay(teams)
    \/ \E archive \in DetectArchives : narrate(archive)

SpecDetect == DetectInit /\ [][DetectNext]_vars

(***************************************************************************)
(* Claims about the detectors (SpecDetect)                                 *)
(***************************************************************************)
\* The candidates of the last call whose text is of a kind.
candidatesOf(kinds) ==
    {c \in {query[1].stat.candidates[i] : i \in 1..Len(query[1].stat.candidates)} :
        c.text.kind \in kinds}

\* How many teams of a day come before a franchise when the day is ranked by
\* dayPts, equal teams in the order of the list; the franchise is in the day.
aheadOf(day, franchise) ==
    LET me == CHOOSE i \in 1..Len(day.teams) :
                  /\ day.teams[i].franchise = franchise
                  /\ \A j \in 1..(i - 1) : day.teams[j].franchise # franchise
    IN  Cardinality({j \in 1..Len(day.teams) :
                        \/ day.teams[j].dayPts > day.teams[me].dayPts
                        \/ day.teams[j].dayPts = day.teams[me].dayPts /\ j < me})

\* On how many of the most recent consecutive days of the whole history the
\* franchise has fewer than `places` teams before it.
daysWithin(franchise, places) ==
    Cardinality({i \in 1..Len(allDays) :
                    \A j \in i..Len(allDays) :
                        /\ hasTeam(allDays[j], franchise)
                        /\ aheadOf(allDays[j], franchise) < places})

\* C22 (as claimed): when the franchise is ranked #1 on exactly the k most
\* recent consecutive days, a win-streak candidate is emitted if and only if
\* k >= 2, its text says "k-day win streak" and its score is
\* min(95, 40 + 15 * k).
C22_WinStreakOfK ==
    query # None /\ Len(allDays) >= 2 =>
        LET k == daysWithin(query[1].stat.franchise, 1)
        IN  /\ candidatesOf({"win streak"}) # {} <=> k >= 2
            /\ \A c \in candidatesOf({"win streak"}) :
                  c.text.nums = <<k>> /\ c.score = Min(95, 40 + 15 * k)

\* C22, as the code has it: the streak is counted over the 30 most recent
\* loaded days, so the text says min(k, 30); the rest is as claimed.
C22_WinStreakWithin30 ==
    query # None /\ Len(allDays) >= 2 =>
        LET k == daysWithin(query[1].stat.franchise, 1)
        IN  /\ candidatesOf({"win streak"}) # {} <=> k >= 2
            /\ Cardinality(candidatesOf({"win streak"})) <= 1
            /\ \A c \in candidatesOf({"win streak"}) :
                  c.text.nums = <<Min(k, 30)>> /\ c.score = Min(95, 40 + 15 * k)

\* A call with the franchise first on each of the 31 days of the history:
\* the text says 30.
C22_Witness ==
    /\ query # None
    /\ daysWithin(query[1].stat.franchise, 1) = 31
    /\ \E c \in candidatesOf({"win streak"}) : c.text.nums = <<30>> /\ c.score = 95

\* C23: no candidate set holds both a win-streak and a podium-streak
\* candidate; the podium-streak candidate is emitted exactly when the
\* franchise was in the top 3 on the 3 or more most recent consecutive days
\* and its win streak is below 2.
C23_StreaksExclusive ==
    query # None /\ Len(allDays) >= 2 =>
        /\ candidatesOf({"win streak"}) = {} \/ candidatesOf({"podium streak"}) = {}
        /\ candidatesOf({"podium streak"}) # {}
              <=> /\ daysWithin(query[1].stat.franchise, 3) >= 3
                  /\ daysWithin(query[1].stat.franchise, 1) < 2

\* A call with three days or more in the top 3 and a win streak of two or
\* more, which has the win streak only.
C23_Witness ==
    /\ query # None
    /\ daysWithin(query[1].stat.franchise, 3) >= 3
    /\ daysWithin(query[1].stat.franchise, 1) >= 2
    /\ candidatesOf({"win streak"}) # {}
    /\ candidatesOf({"podium streak"}) = {}

\* On how many of the most recent consecutive days of the whole history the
\* franchise is outside the top 3.
daysOutside(franchise) ==
    Cardinality({i \in 1..Len(allDays) :
                    \A j \in i..Len(allDays) :
                        ~hasTeam(allDays[j], franchise) \/ aheadOf(allDays[j], franchise) >= 3})

\* C29: no history makes buildNarratives emit the drought candidate; a
\* franchise outside the top 3 for 8 days or more has the bottom-half streak
\* candidate instead.
C29_NoDrought ==
    query # None =>
        /\ candidatesOf({"drought"}) = {}
        /\ daysOutside(query[1].stat.franchise) >= 8 => candidatesOf({"bottom-half streak"}) # {}

\* A call after 8 days or more outside the top 3.
C29_Witness ==
    /\ query # None
    /\ daysOutside(query[1].stat.franchise) >= 8
    /\ candidatesOf({"bottom-half streak"}) # {}

\* C24: every candidate emitted by a detector of buildNarratives has a score
\* within 0..100.
C24_ScoresWithin100 ==
    query # None =>
        \A i \in 1..Len(query[1].stat.candidates) :
            query[1].stat.candidates[i].score \in 0..100

\* C25: the projection-confidence multiplier is 1.0 whenever daysPlayed >= 10,
\* whatever the length of the period.
C25_FullConfidenceFromDay10 ==
    query # None =>
        \A p \in {query[1].stat.projection} :
            (p # None /\ p[1].daysPlayed >= 10) => projConfidence(p[1]) = <<1, 1>>

\* What does hold of the multiplier: it never exceeds 1.0, a further day of the
\* period never lowers it, and it is 1.0 exactly from 7/9 of the period on.
C25_ConfidenceRamp ==
    query # None =>
        \A p \in {query[1].stat.projection} :
            p # None =>
                \E c \in {projConfidence(p[1])} :
                    /\ c[1] <= c[2]
                    /\ c = <<1, 1>> <=> 9 * p[1].daysPlayed >= 7 * p[1].totalDays
                    /\ p[1].daysPlayed > 1 =>
                          \E b \in {projConfidence([p[1] EXCEPT !.daysPlayed = @ - 1])} :
                              b[1] * c[2] <= c[1] * b[2]

\* The career total buildNarratives works with for the franchise of the query,
\* in tenths: the archive's career total plus the points of the current period.
careerTenths == 10 * getCareerTotalPoints(query[1].archive.records, "JGC").totalPts
                    + query[1].stat.periodPts

\* The candidate the claim expects for a franchise with an archive career: the
\* milestone crossed by less than 5 points at 90, else the nearest unmet one
\* when it is at most 100 points away, at the score of its band.
milestoneExpected(total) ==
    LET all     == {milestones[i] : i \in 1..Len(milestones)}
        crossed == {m \in all : 10 * m <= total}
        unmet   == {m \in all : 10 * m > total}
        last    == CHOOSE m \in crossed : \A o \in crossed : o <= m
        nearest == CHOOSE m \in unmet : \A o \in unmet : m <= o
        rem     == 10 * nearest - total
    IN  IF crossed # {} /\ total - 10 * last < 50
        THEN <<Cand(90, "", FALSE, Txt("crossed milestone", <<last>>, <<>>))>>
        ELSE IF unmet # {} /\ rem <= 1000
        THEN <<Cand(IF rem <= 200 THEN 85 ELSE IF rem <= 500 THEN 70 ELSE 55, "", FALSE,
                    Txt("from milestone", <<rem, nearest>>, <<>>))>>
        ELSE <<>>

\* C26: at most one milestone candidate is emitted; it names the nearest unmet
\* milestone, or the one just crossed, at the score of its band (85 within 20
\* points, 70 within 50, 55 within 100, 90 just crossed); none is emitted
\* when the nearest unmet milestone is more than 100 points away and none was
\* just crossed.  The detector runs in the calls that pass the history test of
\* buildNarratives (at least 2 days) and for a franchise with an archive career.
C26_NearestMilestone ==
    (query # None /\ ~tooFewDays(allDays)) =>
        /\ candidatesOf({"from milestone", "crossed milestone"})
              = {c \in {milestoneExpected(careerTenths)[i] :
                            i \in 1..Len(milestoneExpected(careerTenths))} :
                    getCareerTotalPoints(query[1].archive.records, "JGC").totalPts > 0}
        /\ Len(SelectSeq(query[1].stat.candidates,
                         LAMBDA c : c.text.kind \in {"from milestone", "crossed milestone"})) <= 1

\* A call for a career of 990 archive points and 1.0 points in the period:
\* 9 points from 1000, at 85.
C26_Witness ==
    /\ query # None
    /\ careerTenths = 9910
    /\ candidatesOf({"from milestone", "crossed milestone"}) =
          {Cand(85, "", FALSE, Txt("from milestone", <<90, 1000>>, <<>>))}

\* The lines of the four fallback lenses of a team's call, in lens order.
lensLines(r, entry) ==
    only({ lensDayRank(cx) \o lensPpg(cx) \o lensPeriodStanding(cx) \o lensOwnPeriods(cx) :
           cx \in {narrativeContextOf(r, entry)} })

\* The first n entries of a sequence, all of it when it is shorter.
upTo(seq, n) == SubSeq(seq, 1, Min(n, Len(seq)))

\* The texts of the candidates the score-ranked selection took, in its order.
pickedByScore(entry) == Array([i \in 1..Len(entry.stats.selected) |-> entry.stats.selected[i].text])

\* C27: when the selection took 2 narratives they are the output and no lens
\* line is in it; when it took fewer, the output is what it took followed by
\* the lens lines not already present, in lens order, cut where 2 are filled;
\* the guaranteed line appears only when that leaves the output empty, and it
\* is the period projection when there is one and the season PPG otherwise.
C27_FallbackCascade ==
    \A rt \in RunTeams :
        ~tooFewDays(loadedDays(rt.r)) =>
            \E picked \in {pickedByScore(rt.team)} :
                IF Len(picked) >= 2 THEN rt.team.stats.streaks = picked
                ELSE \E lines \in {upTo(SelectSeq(lensLines(rt.r, rt.team),
                                                     LAMBDA t : \A i \in 1..Len(picked) : picked[i] # t),
                                           2 - Len(picked))} :
                        IF picked \o lines # <<>> THEN rt.team.stats.streaks = picked \o lines
                        ELSE IF rt.team.stats.projection # None
                        THEN rt.team.stats.streaks
                                 = <<Txt("proj finish", <<rt.team.stats.projection[1].projected>>, <<>>)>>
                        ELSE IF rt.team.stats.ppg # None /\ rt.team.stats.ppg # Some(0)
                        THEN rt.team.stats.streaks = <<Txt("season avg", <<rt.team.stats.ppg[1]>>, <<>>)>>
                        ELSE rt.team.stats.streaks = <<>>

\* A call in which the selection took one narrative and two lenses have a
\* line: the output is the narrative followed by the first of the two.
C27_Witness ==
    \E rt \in RunTeams :
        /\ ~tooFewDays(loadedDays(rt.r))
        /\ Len(rt.team.stats.selected) = 1
        /\ Len(lensLines(rt.r, rt.team)) >= 2
        /\ rt.team.stats.streaks = <<rt.team.stats.selected[1].text, lensLines(rt.r, rt.team)[1]>>

(***************************************************************************)
(* backfill.js: scrapeDate, the fingerprint polling loop, under the date   *)
(* loop of main.  A fingerprint is the text of the score headings of the   *)
(* page; "" is the one of a page without headings.                         *)
(***************************************************************************)
maxAttempts == 15
MaxDates == 2

Fingerprints == {"", "12.5,3.0", "0.0,0.0"}

\* !prevFingerprint || current !== prevFingerprint: null and "" are falsy.
changedFromPrev(prevFingerprint, current) ==
    \/ prevFingerprint = None
    \/ prevFingerprint = Some("")
    \/ current # prevFingerprint[1]

\* The body of the loop without the test against the previous date's page.
pollOnce_StableOnly(s, current) ==
    IF current = s.fingerprint /\ current # ""
    THEN [s EXCEPT !.stableCount = @ + 1, !.broke = s.stableCount + 1 >= 2]
    ELSE [s EXCEPT !.fingerprint = current, !.stableCount = 0]

\* The body of the loop for one value of getFingerprint(): the locals after
\* it, broke saying that it left the loop by its break.
pollOnce(s, current) ==
    IF current = s.fingerprint /\ current # ""
    THEN [s EXCEPT !.stableCount = @ + 1,
                   !.broke = changedFromPrev(s.prevFingerprint, current) /\ s.stableCount + 1 >= 2]
    ELSE [s EXCEPT !.fingerprint = current, !.stableCount = 0]

\* The last three values polled, for the claims.
lastThree(recent, current) ==
    IF Len(recent) < 3 THEN Append(recent, current) ELSE Append(Tail(recent), current)

ScrapeInit ==
    /\ allDays = <<>>
    /\ query = None
    /\ FetchIdle
    /\ NightlyIdle
    /\ RestIdle

scrapeRest == <<statsVars, fetchVars, nightlyVars, lookups, tasks, pipeline>>

\* main calls scrapeDate for the next date.  Without the cards
\* (waitForSelector throws) the call returns prevFingerprint as it got it;
\* with them the locals of the loop are set.
scrapeDate(found) ==
    /\ dateScrape.pc = "idle"
    /\ dateScrape.dates < MaxDates
    /\ dateScrape' = IF found
                     THEN [dateScrape EXCEPT !.pc = "poll", !.fingerprint = "", !.stableCount = 0,
                                             !.i = 0, !.polls = 0, !.recent = <<>>, !.broke = FALSE]
                     ELSE [dateScrape EXCEPT !.dates = @ + 1]
    /\ UNCHANGED scrapeRest

\* One turn of "for (let i = 0; i < maxAttempts; i++)": the wait, the poll
\* and the tests; the loop is left by the break or by its condition.
poll(current) ==
    /\ dateScrape.pc = "poll"
    /\ dateScrape.i < maxAttempts
    /\ \E s \in {pollOnce(dateScrape, current)} :
          dateScrape' = [s EXCEPT !.polls = @ + 1,
                                  !.recent = lastThree(@, current),
                                  !.i = IF s.broke THEN @ ELSE @ + 1,
                                  !.pc = IF s.broke \/ s.i + 1 >= maxAttempts
                                         THEN "extract" ELSE "poll"]
    /\ UNCHANGED scrapeRest

\* The extraction and the return to main: "prevFingerprint = result ?
\* result.fingerprint : prevFingerprint"; a call that threw leaves it as it was.
extract(threw) ==
    /\ dateScrape.pc = "extract"
    /\ dateScrape' = [dateScrape EXCEPT !.pc = "idle", !.dates = @ + 1,
                                        !.prevFingerprint = IF threw THEN @
                                                            ELSE Some(dateScrape.fingerprint)]
    /\ UNCHANGED scrapeRest

ScrapeNext ==
    \/ \E found \in BOOLEAN : scrapeDate(found)
    \/ \E current \in Fingerprints : poll(current)
    \/ \E threw \in BOOLEAN : extract(threw)

\* Every poll is a timer of one second and an evaluation in the page: a loop
\* that can poll does poll.
SpecScrape == ScrapeInit /\ [][ScrapeNext]_vars /\ WF_vars(\E current \in Fingerprints : poll(current))

\* C28: the polling loop ends after at most 15 polls; when it ends before the
\* 15th poll, the current fingerprint is not empty, the last three polls gave
\* it, stableCount is at least 2 and it differs from the previous date's
\* fingerprint or there is none; otherwise the page is scraped after the 15th
\* poll.
C28_PollingLoop ==
    /\ [](dateScrape.pc = "poll" => dateScrape.polls < maxAttempts)
    /\ [](dateScrape.pc = "extract" =>
            /\ dateScrape.polls <= maxAttempts
            /\ dateScrape.broke \/ dateScrape.polls = maxAttempts
            /\ (dateScrape.polls < maxAttempts \/ dateScrape.broke) =>
                  /\ dateScrape.fingerprint # ""
                  /\ dateScrape.recent = <<dateScrape.fingerprint, dateScrape.fingerprint,
                                           dateScrape.fingerprint>>
                  /\ dateScrape.stableCount >= 2
                  /\ \/ dateScrape.prevFingerprint = None
                     \/ dateScrape.prevFingerprint # Some(dateScrape.fingerprint))
    /\ (dateScrape.pc = "poll" ~> dateScrape.pc = "extract")

\* The loop of a second date left at its 7th poll: the page showed the
\* previous date's scores four times, then the new ones three times.
C28_Witness ==
    /\ dateScrape.pc = "extract"
    /\ dateScrape.polls = 7
    /\ dateScrape.prevFingerprint = Some("12.5,3.0")
    /\ dateScrape.fingerprint = "0.0,0.0"
    /\ dateScrape.broke


====
